---- MODULE Spec2Model ----
(***************************************************************************)
(* Verification model of the JMV-DAS streaming pipeline:                   *)
(*   backend/acquisition.py   AcquisitionWorker (ingestion queue)          *)
(*   app/ui/main_window.py    MainWindow (stream cache, selection)         *)
(*   app/viz/waterfall_renderer.py  WaterfallRenderer (scrolling buffer)   *)
(***************************************************************************)
EXTENDS Integers, Sequences, FiniteSets, TLC

VARIABLES
  running,   \* AcquisitionWorker.running
  drvOn,     \* the driver is started and delivers callbacks
  registered,\* callbacks the driver accepted at registration
  connected, \* a slot is connected to AcquisitionWorker.data_ready
  queue,     \* AcquisitionWorker.queue, oldest item first
  cons,      \* position of the consumer thread in _process_loop
  consItem,  \* payload held by the consumer between get() and emit()
  sigq,      \* data_ready emissions not yet delivered to on_data_ready
  pc,        \* position of each callback context in _on_block
  loc,       \* arguments and payload of each callback context inside _on_block
  clock,     \* time.time() at the latest callback
  budget,    \* calls the caller of a bounded scenario will still make
  latest,    \* MainWindow._latest_by_stream
  sel,       \* <<wf_channel, wf_kind>> selection of the operator
  ret,       \* value returned by the last _pull_selected_payload
  wfH,       \* WaterfallRenderer.wf_height
  wfW,       \* WaterfallRenderer.wf_width (0 for None)
  wf,        \* WaterfallRenderer.wf, oldest row first (<<>> for None)
  stopPc,    \* position of the UI thread inside AcquisitionWorker.stop
  tfCfg,     \* fields of the WaterfallTransform
  tfIn,      \* method and arguments of a call of the WaterfallTransform
  tfOut,     \* what that call returned, if it has
  lastUpdate, \* MainWindow._last_update_ts
  tsT,       \* MainWindow._ts_t, oldest time first
  tsY,       \* MainWindow._ts_y, oldest sample first
  tsLastT,   \* MainWindow._ts_last_t
  tsCol,     \* value of the spin box ts_col
  tsColMax,  \* upper end of the range of ts_col
  tsLastPc,  \* MainWindow._ts_last_point_count (-1 for None)
  ctl,       \* values of the transform controls of the window
  wfSrcW,    \* MainWindow._wf_src_w
  cbRefs,    \* AcquisitionWorker._cb_refs, as the set of its callbacks
  cons2,     \* position of the consumer thread of the previous start()
  cons2Item, \* payload held by that thread between get() and emit()
  status,    \* text of the status line of the window
  wcfg       \* the cfg_* fields of the worker

acqVars == <<running, drvOn, registered, connected, queue, cons, consItem, sigq, pc, loc, clock, budget>>
uiVars == <<latest, sel, ret>>
wfVars == <<wfH, wfW, wf>>
stopVars == <<stopPc>>
tfVars == <<tfCfg, tfIn, tfOut>>
tickVars == <<lastUpdate, tsT, tsY, tsLastT, tsCol, tsColMax, tsLastPc, ctl, wfSrcW>>
refVars == <<cbRefs>>
sideVars == <<cons2, cons2Item, status, wcfg>>
vars == <<acqVars, uiVars, wfVars, stopVars, tfVars, tickVars, refVars, sideVars>>

----------------------------------------------------------------------------
(* Bounds of the model *)

\* callbacks whose registration with the driver succeeds in start()
MaxRegistered == 2
\* callbacks delivered in the decoding specification
MaxDecodeCalls == 2
\* largest lines hint, and largest point_count, of a callback
MaxDim == 3
\* largest number of float32 samples in a callback buffer
MaxSamples == 5
\* data_ready signals delivered in the stream cache specification
MaxPublishes == 4
\* largest wf_height of the renderer specification
MaxHeight == 3

\* wf_height of the renderer the main window builds
WfHeight == 600

\* most rows of a block handed to _rolling_mse_energy
MaxRows == 3
\* largest window handed to _rolling_mse_energy
MaxWin == 4

----------------------------------------------------------------------------
(* Program constants *)

\* queue.Queue(maxsize=6)
QueueMax == 6
\* np.float32 item size in bytes
SampleBytes == 4

\* the four callbacks registered by start(): index -> (channel, kind)
Producers == 1..4
ChannelOf(p) == IF p <= 2 THEN 1 ELSE 2
KindOf(p) == IF p % 2 = 1 THEN "amp" ELSE "phase"
Channels == {1, 2}
Kinds == {"amp", "phase"}
Keys == Channels \X Kinds

None == [ts |-> 0]

\* the texts of the status line of the window: main_window.py, lines 107, 256-258, 265, 469-475, 478
StatusIdle == "Status: Idle"
StatusRunning == "Status: Running (cfg_scan=...)"
StatusStopped == "Status: Stopped"
StatusShow == "Status: Running (show=...)"
StatusRenderError == "Status: Render error"

----------------------------------------------------------------------------
(* queue.Queue *)

\* Queue.full(): a maxsize <= 0 means unbounded
QFull(q) == QueueMax > 0 /\ Len(q) >= QueueMax

\* Queue.put_nowait(item): raises queue.Full on a full queue, appends otherwise
QPutNowaitUnbounded(q, item) == [exc |-> "", q |-> Append(q, item)]
QPutNowait(q, item) ==
  IF QFull(q) THEN [exc |-> "Full", q |-> q] ELSE [exc |-> "", q |-> Append(q, item)]

\* Queue.get_nowait(): raises queue.Empty on an empty queue, removes and
\* returns the oldest item otherwise
QGetNowaitNewest(q) ==
  IF q = <<>> THEN [exc |-> "Empty", q |-> q, item |-> None]
  ELSE [exc |-> "", q |-> SubSeq(q, 1, Len(q) - 1), item |-> q[Len(q)]]
QGetNowait(q) ==
  IF q = <<>> THEN [exc |-> "Empty", q |-> q, item |-> None]
  ELSE [exc |-> "", q |-> Tail(q), item |-> Head(q)]

----------------------------------------------------------------------------
(* _on_block: decoding of the callback buffer *)

\* byte i (from 0) of the driver buffer behind data_ptr, for content seed s
BufByte(s, i) == (37 * i + 11 + 101 * s) % 256

\* raw = bytes(data_ptr[:size])
RawBytes(s, size) == [i \in 1..size |-> BufByte(s, i - 1)]

\* np.frombuffer(raw, dtype=np.float32): one item per 4 bytes (the 4 bytes
\* of its bit pattern stand for the float); raises ValueError when the byte
\* count is no multiple of the item size
FromBufferTruncating(raw) ==
  [exc |-> "",
   arr |-> [k \in 1..(Len(raw) \div SampleBytes) |->
              <<raw[4 * k - 3], raw[4 * k - 2], raw[4 * k - 1], raw[4 * k]>>]]
FromBuffer(raw) ==
  IF Len(raw) % SampleBytes # 0 THEN [exc |-> "ValueError", arr |-> <<>>]
  ELSE [exc |-> "",
        arr |-> [k \in 1..(Len(raw) \div SampleBytes) |->
                   <<raw[4 * k - 3], raw[4 * k - 2], raw[4 * k - 1], raw[4 * k]>>]]

\* lines 209-212: prefer the hint when it is consistent, otherwise compute
NumLinesIgnoreHint(cb_lines, point_count, total) == total \div point_count
NumLinesTrustHint(cb_lines, point_count, total) ==
  IF cb_lines > 0 THEN cb_lines ELSE total \div point_count
NumLines(cb_lines, point_count, total) ==
  IF cb_lines > 0 /\ cb_lines * point_count <= total
  THEN cb_lines
  ELSE total \div point_count

\* arr[:total2].reshape((num_lines, point_count)): row major
Reshape(arr, num_lines, point_count) ==
  [r \in 1..num_lines |-> [c \in 1..point_count |-> arr[(r - 1) * point_count + c]]]

\* lines 195-234 of _on_block for callback context p and arguments a at time
\* now: kind "return" for the early returns, "raise" when a statement raises
\* exc, "payload" when the payload is built
BuildPayload(p, a, now) ==
  IF a.point_count <= 0 \/ a.size <= 0 THEN [kind |-> "return", exc |-> "", payload |-> None]
  ELSE LET fb == FromBuffer(RawBytes(a.seed, a.size)) IN
    IF fb.exc # "" THEN [kind |-> "raise", exc |-> fb.exc, payload |-> None]
    ELSE LET total == Len(fb.arr)
             num_lines == NumLines(a.lines, a.point_count, total)
             total2 == num_lines * a.point_count
         IN IF num_lines <= 0 THEN [kind |-> "return", exc |-> "", payload |-> None]
            ELSE IF total2 > total
            THEN \* arr[:total2] is arr, and reshape raises
                 [kind |-> "raise", exc |-> "ValueError", payload |-> None]
            ELSE [kind |-> "payload", exc |-> "",
                  payload |-> [channel |-> ChannelOf(p),
                               kind |-> KindOf(p),
                               cb_lines |-> num_lines,
                               point_count |-> a.point_count,
                               block |-> Reshape(SubSeq(fb.arr, 1, total2),
                                                 num_lines, a.point_count),
                               ts |-> now]]

\* line 243: the outer "except Exception" of _on_block; "idle" when the
\* exception is caught and logged (_on_block returns), "raised" when it
\* leaves _on_block
Exceptions == {"ValueError", "Full", "Empty"}
OnBlockExceptOnlyEmpty(exc) == IF exc = "Empty" THEN "idle" ELSE "raised"
OnBlockExcept(exc) == IF exc \in Exceptions THEN "idle" ELSE "raised"


\* the arguments of a callback
CbArgs(l, pcnt, sz) == [lines |-> l, point_count |-> pcnt, size |-> sz, seed |-> 0]
NoLocals == [args |-> CbArgs(0, 0, 0), payload |-> None]

----------------------------------------------------------------------------
(* _on_block: one callback context p *)

\* lines 195-236: a call with arguments a at time now, up to the payload and
\* the test self.queue.full()
CbEnter(p, a, now) ==
  /\ pc[p] = "idle"
  /\ now >= clock
  /\ clock' = now
  /\ LET r == BuildPayload(p, a, now) IN
       CASE r.kind = "payload" ->
              /\ pc' = [pc EXCEPT ![p] = IF QFull(queue) THEN "evict" ELSE "put"]
              /\ loc' = [loc EXCEPT ![p] = [args |-> a, payload |-> r.payload]]
         [] r.kind = "return" ->
              UNCHANGED <<pc, loc>>
         [] r.kind = "raise" ->
              /\ pc' = [pc EXCEPT ![p] = OnBlockExcept(r.exc)]
              /\ UNCHANGED loc
  /\ UNCHANGED <<running, drvOn, registered, connected, queue, cons, consItem, sigq, uiVars, wfVars, stopVars, tfVars, tickVars, refVars, sideVars>>

\* lines 237-240: get_nowait(), queue.Empty passed over
CbEvict(p) ==
  /\ pc[p] = "evict"
  /\ queue' = QGetNowait(queue).q
  /\ pc' = [pc EXCEPT ![p] = "put"]
  /\ UNCHANGED <<running, drvOn, registered, connected, cons, consItem, sigq, loc, clock, budget,
                 uiVars, wfVars, stopVars, tfVars, tickVars, refVars, sideVars>>

\* line 241 and lines 243-244: put_nowait(payload), then return
CbPut(p) ==
  /\ pc[p] = "put"
  /\ LET r == QPutNowait(queue, loc[p].payload) IN
       /\ queue' = r.q
       /\ pc' = [pc EXCEPT ![p] = IF r.exc = "" THEN "idle" ELSE OnBlockExcept(r.exc)]
  /\ loc' = [loc EXCEPT ![p] = NoLocals]
  /\ UNCHANGED <<running, drvOn, registered, connected, cons, consItem, sigq, clock, budget,
                 uiVars, wfVars, stopVars, tfVars, tickVars, refVars, sideVars>>

CbStep(p) == CbEvict(p) \/ CbPut(p)

----------------------------------------------------------------------------
(* _process_loop: the consumer thread *)

\* a loop that does not test self.running
ConsLoopForever ==
  /\ cons = "loop"
  /\ cons' = "get"
  /\ UNCHANGED <<running, drvOn, registered, connected, queue, consItem, sigq, pc, loc, clock, budget,
                 uiVars, wfVars, stopVars, tfVars, tickVars, refVars, sideVars>>

\* line 247: while self.running
ConsLoop ==
  /\ cons = "loop"
  /\ cons' = IF running THEN "get" ELSE "done"
  /\ UNCHANGED <<running, drvOn, registered, connected, queue, consItem, sigq, pc, loc, clock, budget,
                 uiVars, wfVars, stopVars, tfVars, tickVars, refVars, sideVars>>

\* line 249: queue.get(timeout=1) returns the oldest item
ConsGet ==
  /\ cons = "get"
  /\ queue # <<>>
  /\ LET r == QGetNowait(queue) IN
       /\ queue' = r.q
       /\ consItem' = r.item
  /\ cons' = "emit"
  /\ UNCHANGED <<running, drvOn, registered, connected, sigq, pc, loc, clock, budget, uiVars, wfVars, stopVars, tfVars, tickVars, refVars, sideVars>>

\* lines 249, 251-252: the timeout ends on an empty queue, queue.Empty, continue
ConsTimeout ==
  /\ cons = "get"
  /\ queue = <<>>
  /\ cons' = "loop"
  /\ UNCHANGED <<running, drvOn, registered, connected, queue, consItem, sigq, pc, loc, clock, budget,
                 uiVars, wfVars, stopVars, tfVars, tickVars, refVars, sideVars>>

\* line 250: self.data_ready.emit(payload): queued for the thread of the
\* connected slot, dropped when no slot is connected
ConsEmit ==
  /\ cons = "emit"
  /\ sigq' = IF connected THEN Append(sigq, consItem) ELSE sigq
  /\ consItem' = None
  /\ cons' = "loop"
  /\ UNCHANGED <<running, drvOn, registered, connected, queue, pc, loc, clock, budget, uiVars, wfVars, stopVars, tfVars, tickVars, refVars, sideVars>>

Consumer == ConsLoop \/ ConsGet \/ ConsTimeout \/ ConsEmit

\* an exception that leaves _process_loop ends the thread
ConsEmitUncaught ==
  /\ cons = "emit"
  /\ consItem' = None
  /\ cons' = "done"
  /\ UNCHANGED <<running, drvOn, registered, connected, queue, sigq, pc, loc, clock, budget,
                 uiVars, wfVars, stopVars, tfVars, tickVars, refVars, sideVars>>
\* lines 250, 253-254: data_ready.emit raises; the exception is printed and
\* the loop goes on with the payload lost
ConsEmitRaises ==
  /\ cons = "emit"
  /\ consItem' = None
  /\ cons' = "loop"
  /\ UNCHANGED <<running, drvOn, registered, connected, queue, sigq, pc, loc, clock, budget,
                 uiVars, wfVars, stopVars, tfVars, tickVars, refVars, sideVars>>

(* the thread of the start() before the last one, which stop() did not join *)

\* line 247: while self.running
Cons2Loop ==
  /\ cons2 = "loop"
  /\ cons2' = IF running THEN "get" ELSE "done"
  /\ UNCHANGED <<acqVars, uiVars, wfVars, stopVars, tfVars, tickVars, refVars, cons2Item,
                 status, wcfg>>

\* line 249: queue.get(timeout=1) returns the oldest item
Cons2Get ==
  /\ cons2 = "get"
  /\ queue # <<>>
  /\ LET r == QGetNowait(queue) IN
       /\ queue' = r.q
       /\ cons2Item' = r.item
  /\ cons2' = "emit"
  /\ UNCHANGED <<running, drvOn, registered, connected, cons, consItem, sigq, pc, loc, clock,
                 budget, uiVars, wfVars, stopVars, tfVars, tickVars, refVars, status, wcfg>>

\* lines 249, 251-252: the timeout ends on an empty queue
Cons2Timeout ==
  /\ cons2 = "get"
  /\ queue = <<>>
  /\ cons2' = "loop"
  /\ UNCHANGED <<acqVars, uiVars, wfVars, stopVars, tfVars, tickVars, refVars, cons2Item,
                 status, wcfg>>

\* line 250: self.data_ready.emit(payload)
Cons2Emit ==
  /\ cons2 = "emit"
  /\ sigq' = IF connected THEN Append(sigq, cons2Item) ELSE sigq
  /\ cons2Item' = None
  /\ cons2' = "loop"
  /\ UNCHANGED <<running, drvOn, registered, connected, queue, cons, consItem, pc, loc, clock,
                 budget, uiVars, wfVars, stopVars, tfVars, tickVars, refVars, status, wcfg>>

Consumer2 == Cons2Loop \/ Cons2Get \/ Cons2Timeout \/ Cons2Emit

----------------------------------------------------------------------------
(* start() *)

\* values of the controls scan_rate, mode, pulse_width and scale_down when
\* the window is built (main_window.py, lines 42-58)
UiConfig ==
  [scan_rate |-> "1k", mode |-> "Coherent Suppression", pulse_width |-> 100,
   scale_down |-> 10]

\* a thread is executing _process_loop at position c
Alive(c) == c \in {"loop", "get", "emit"}

\* lines 71-148 of start(): the cfg_* fields are set (lines 71-74); the four
\* callbacks are made and held in _cb_refs (lines 93-98); the driver accepts
\* the callbacks regs (a failing registration is passed over, lines
\* 100-119); when the driver opens and starts (ok) the worker runs and a new
\* consumer thread is started (lines 146-148) while the thread of an earlier
\* start, if it is still in its loop, goes on; otherwise start returns after
\* handler.destroy() (lines 122-144). At most two threads are followed.
StartBody(regs, ok, c) ==
  /\ wcfg' = c
  /\ cbRefs' = Producers
  /\ registered' = regs
  /\ IF ok
     THEN /\ running' = TRUE
          /\ drvOn' = TRUE
          /\ cons' = "loop"
          /\ consItem' = None
          /\ IF Alive(cons)
             THEN /\ ~Alive(cons2)
                  /\ cons2' = cons
                  /\ cons2Item' = consItem
             ELSE UNCHANGED <<cons2, cons2Item>>
     ELSE UNCHANGED <<running, drvOn, cons, consItem, cons2, cons2Item>>

\* on_start_clicked with the controls at c (main_window.py, lines 247-260):
\* worker.start returns at once when the worker runs (acquisition.py, lines
\* 68-69), and whatever it did the status line is set to "Running"
StartWithNoCheck(regs, ok, c) ==
  /\ stopPc = "idle"
  /\ StartBody(regs, ok, c)
  /\ status' = StatusRunning
  /\ UNCHANGED <<connected, queue, sigq, pc, loc, clock, budget, uiVars, wfVars, stopVars,
                 tfVars, tickVars>>
StartWith(regs, ok, c) ==
  /\ stopPc = "idle"
  /\ IF running
     THEN UNCHANGED <<wcfg, cbRefs, registered, running, drvOn, cons, consItem, cons2,
                      cons2Item>>
     ELSE StartBody(regs, ok, c)
  /\ status' = StatusRunning
  /\ UNCHANGED <<connected, queue, sigq, pc, loc, clock, budget, uiVars, wfVars, stopVars,
                 tfVars, tickVars>>

\* on_start_clicked with the controls as the window was built
Start(regs, ok) == StartWith(regs, ok, UiConfig)

\* the operator presses Start when the worker does not run
StartIdle(regs, ok) ==
  /\ ~running
  /\ Start(regs, ok)

----------------------------------------------------------------------------
(* stop(): the calling thread, one statement at a time *)

\* stop() is called by on_stop_clicked, which then sets the status line
\* (main_window.py, lines 262-267).
\* lines 151-153: a stop of a worker that does not run returns at once;
\* otherwise self.running = False
StopBegin ==
  /\ stopPc = "idle"
  /\ IF running
     THEN /\ running' = FALSE
          /\ stopPc' = "driver"
          /\ UNCHANGED status
     ELSE /\ status' = StatusStopped
          /\ UNCHANGED <<running, stopPc>>
  /\ UNCHANGED <<drvOn, registered, connected, queue, cons, consItem, sigq, pc, loc, clock, budget,
                 uiVars, wfVars, tfVars, tickVars, refVars, cons2, cons2Item, wcfg>>

\* lines 155-163: handler.stop() and handler.destroy(); the driver invokes
\* no further callback, the callbacks it has invoked go on
StopDriver ==
  /\ stopPc = "driver"
  /\ drvOn' = FALSE
  /\ stopPc' = "drain"
  /\ UNCHANGED <<running, registered, connected, queue, cons, consItem, sigq, pc, loc, clock, budget,
                 uiVars, wfVars, tfVars, tickVars, refVars, sideVars>>

\* lines 166-170: one get_nowait() of the drain loop; queue.Empty ends it
StopDrain ==
  /\ stopPc = "drain"
  /\ LET r == QGetNowait(queue) IN
       /\ queue' = r.q
       /\ stopPc' = IF r.exc = "Empty" THEN "clear" ELSE "drain"
  /\ UNCHANGED <<running, drvOn, registered, connected, cons, consItem, sigq, pc, loc, clock, budget,
                 uiVars, wfVars, tfVars, tickVars, refVars, sideVars>>

\* line 172: self._cb_refs.clear(), stop() returns and the status line is set
StopClear ==
  /\ stopPc = "clear"
  /\ registered' = {}
  /\ cbRefs' = {}
  /\ stopPc' = "idle"
  /\ status' = StatusStopped
  /\ UNCHANGED <<running, drvOn, connected, queue, cons, consItem, sigq, pc, loc, clock, budget,
                 uiVars, wfVars, tfVars, tickVars, cons2, cons2Item, wcfg>>

Stop == StopBegin \/ StopDriver \/ StopDrain \/ StopClear

----------------------------------------------------------------------------
(* MainWindow: stream cache and selection *)

\* items of the combo boxes wf_channel and wf_kind, lines 61-64
ChannelItems == {"1", "2"}
KindItems == {"phase", "amp"}

\* int(text) of line 279, and the fallback of lines 280-281
ParseChannel(text) ==
  CASE text = "1" -> 1
    [] text = "2" -> 2
    [] OTHER -> 1

\* lines 279-283: the selected key
SelectedKey(selection) ==
  <<ParseChannel(selection[1]), IF selection[2] = "" THEN "phase" ELSE selection[2]>>

\* lines 271-273: the cache after on_data_ready(payload)
CacheKeepFirst(cache, payload) ==
  IF cache[<<payload.channel, payload.kind>>] = None
  THEN [cache EXCEPT ![<<payload.channel, payload.kind>>] = payload]
  ELSE cache
CachePublish(cache, payload) ==
  [cache EXCEPT ![<<payload.channel, payload.kind>>] = payload]

\* lines 284-288: the value returned by _pull_selected_payload and the cache
\* it leaves
CacheTakeDropAll(cache, key) ==
  IF cache[key] = None
  THEN [payload |-> None, cache |-> [k \in DOMAIN cache |-> None]]
  ELSE [payload |-> cache[key], cache |-> [cache EXCEPT ![key] = None]]
CacheTakeNoClear(cache, key) == [payload |-> cache[key], cache |-> cache]
CacheTake(cache, key) ==
  IF cache[key] = None
  THEN [payload |-> None, cache |-> cache]
  ELSE [payload |-> cache[key], cache |-> [cache EXCEPT ![key] = None]]

\* on_data_ready(payload), lines 269-275
OnDataReady(payload) ==
  /\ latest' = CachePublish(latest, payload)
  /\ UNCHANGED <<sel, ret>>

\* _pull_selected_payload, lines 277-288
PullSelectedPayload ==
  /\ LET r == CacheTake(latest, SelectedKey(sel)) IN
       /\ ret' = r.payload
       /\ latest' = r.cache
  /\ UNCHANGED <<sel, acqVars, wfVars, stopVars, tfVars, tickVars, refVars, sideVars>>

\* _poke_refresh, lines 244-245: the value of _last_update_ts after a signal
\* that is emitted when the value of a control changed
PokeKeep(changed, last) == last
PokeRefresh(changed, last) == IF changed THEN 0 ELSE last

\* the operator picks a stream in wf_channel and wf_kind; currentIndexChanged
\* is connected to _poke_refresh (lines 231-232)
SelectStream(ch, kind) ==
  /\ sel' = <<ch, kind>>
  /\ lastUpdate' = PokeRefresh(sel # <<ch, kind>>, lastUpdate)
  /\ UNCHANGED <<latest, ret, acqVars, wfVars, stopVars, tfVars, refVars, sideVars,
                 tsT, tsY, tsLastT, tsCol, tsColMax, tsLastPc, ctl, wfSrcW>>

----------------------------------------------------------------------------
(* WaterfallRenderer *)

\* np.zeros((h, w), dtype=np.uint8)
Zeros(h, w) == [r \in 1..h |-> [c \in 1..w |-> 0]]

\* a value stored as np.uint8
ToUint8(v) == v % 256

\* ensure(width), lines 13-20
EnsureKeepBuffer(width) ==
  /\ IF width <= 0 \/ (wfW # 0 /\ wfW = width)
     THEN UNCHANGED <<wfW, wf>>
     ELSE /\ wfW' = width
          /\ wf' = IF wfW = 0 THEN Zeros(wfH, width) ELSE wf
  /\ UNCHANGED <<wfH, acqVars, uiVars, stopVars, tfVars, tickVars, refVars, sideVars>>
Ensure(width) ==
  /\ IF width <= 0 \/ (wfW # 0 /\ wfW = width)
     THEN UNCHANGED <<wfW, wf>>
     ELSE /\ wfW' = width
          /\ wf' = Zeros(wfH, width)
  /\ UNCHANGED <<wfH, acqVars, uiVars, stopVars, tfVars, tickVars, refVars, sideVars>>

\* lines 34-38: the buffer after a push of the rows g (n = Len(g) >= 1) onto
\* the buffer buf of height h
ScrollNoShift(buf, h, g) ==
  IF Len(g) >= h
  THEN SubSeq(g, Len(g) - h + 1, Len(g))
  ELSE SubSeq(buf, 1, h - Len(g)) \o g
ScrollTop(buf, h, g) ==
  IF Len(g) >= h
  THEN SubSeq(g, 1, h)
  ELSE SubSeq(buf, Len(g) + 1, h) \o g
Scroll(buf, h, g) ==
  IF Len(g) >= h
  THEN SubSeq(g, Len(g) - h + 1, Len(g))
  ELSE SubSeq(buf, Len(g) + 1, h) \o g

\* push_block(gray_block), lines 22-38; a grid is [ndim, width, rows]
PushBlock(g) ==
  /\ IF \/ wfW = 0
        \/ g.ndim # 2
        \/ g.width # wfW
        \/ Len(g.rows) <= 0
     THEN UNCHANGED wf
     ELSE wf' = Scroll(wf, wfH,
                       [r \in 1..Len(g.rows) |->
                          [c \in 1..g.width |-> ToUint8(g.rows[r][c])]])
  /\ UNCHANGED <<wfH, wfW, acqVars, uiVars, stopVars, tfVars, tickVars, refVars, sideVars>>

----------------------------------------------------------------------------
(* Floating-point values of the WaterfallTransform: a finite value is the   *)
(* fraction n/d in lowest terms, next to the infinities and NaN; the        *)
(* rounding of float32 is not modelled                                      *)

RECURSIVE GCD(_, _)
GCD(a, b) == IF b = 0 THEN a ELSE GCD(b, a % b)
AbsInt(k) == IF k < 0 THEN -k ELSE k

\* the finite value n/d, d # 0
Fin(n, d) ==
  LET g == GCD(AbsInt(n), AbsInt(d))
      sg == IF d < 0 THEN -1 ELSE 1
  IN [t |-> "fin", n |-> sg * (n \div g), d |-> sg * (d \div g)]
NaN == [t |-> "nan", n |-> 0, d |-> 1]
\* +inf (sg = 1) and -inf (sg = -1)
Inf(sg) == [t |-> "inf", n |-> sg, d |-> 1]

\* np.isfinite
IsFinite(a) == a.t = "fin"
Sign(k) == IF k > 0 THEN 1 ELSE IF k < 0 THEN -1 ELSE 0

FNeg(a) == [a EXCEPT !.n = -a.n]

\* a + b
FAdd(a, b) ==
  CASE a.t = "nan" \/ b.t = "nan" -> NaN
    [] a.t = "inf" /\ b.t = "inf" -> IF a.n = b.n THEN a ELSE NaN
    [] a.t = "inf" -> a
    [] b.t = "inf" -> b
    [] OTHER -> Fin(a.n * b.d + b.n * a.d, a.d * b.d)

\* a - b
FSub(a, b) == FAdd(a, FNeg(b))

\* a * b
FMul(a, b) ==
  CASE a.t = "nan" \/ b.t = "nan" -> NaN
    [] a.t = "inf" \/ b.t = "inf" ->
         IF a.n = 0 \/ b.n = 0 THEN NaN ELSE Inf(Sign(a.n) * Sign(b.n))
    [] OTHER -> Fin(a.n * b.n, a.d * b.d)

\* a / b as numpy divides: x/0 is an infinity or NaN, with a warning
FDiv(a, b) ==
  CASE a.t = "nan" \/ b.t = "nan" -> NaN
    [] a.t = "inf" /\ b.t = "inf" -> NaN
    [] a.t = "inf" -> Inf(IF b.n < 0 THEN -a.n ELSE a.n)
    [] b.t = "inf" -> Fin(0, 1)
    [] b.n = 0 -> IF a.n = 0 THEN NaN ELSE Inf(Sign(a.n))
    [] OTHER -> Fin(a.n * b.d, a.d * b.n)

\* a < b; every comparison with NaN is false
FLess(a, b) ==
  CASE a.t = "nan" \/ b.t = "nan" -> FALSE
    [] a.t = "inf" /\ b.t = "inf" -> a.n < b.n
    [] a.t = "inf" -> a.n < 0
    [] b.t = "inf" -> b.n > 0
    [] OTHER -> a.n * b.d < b.n * a.d
\* a <= b
FLeq(a, b) == a.t # "nan" /\ b.t # "nan" /\ ~FLess(b, a)

\* np.clip(a, 0.0, 1.0): NaN stays NaN
Clip01(a) ==
  CASE a.t = "nan" -> NaN
    [] FLess(a, Fin(0, 1)) -> Fin(0, 1)
    [] FLess(Fin(1, 1), a) -> Fin(1, 1)
    [] OTHER -> a

\* the integer part of a finite value (towards zero)
Trunc(a) == IF a.n >= 0 THEN a.n \div a.d ELSE -((-a.n) \div a.d)

----------------------------------------------------------------------------
(* WaterfallTransform *)

\* the fields set by __init__, lines 17-35; a float field is a value n/d
TransformDefaults ==
  [mode |-> "Linear", p_lo |-> Fin(5, 1), p_hi |-> Fin(95, 1),
   gamma |-> Fin(1, 1), invert |-> TRUE, eps |-> Fin(1, 1000000),
   vmin |-> Fin(-6, 1), vmax |-> Fin(0, 1), energy_win |-> 32,
   use_log10 |-> TRUE]

\* no method of the transform is called
NoCall == [method |-> "none"]
\* the call has not returned; it returned the value v
Pending == [returned |-> FALSE]
Returned(v) == [returned |-> TRUE, value |-> v]
\* the call was left by the exception e
Raised(e) == [returned |-> FALSE, exc |-> e]

\* x * x, elementwise
Square(x) == [t \in 1..Len(x) |-> [p \in 1..Len(x[t]) |-> FMul(x[t][p], x[t][p])]]

\* the sum of column p of the rows a..b of m, a <= b (halving the range
\* keeps the recursion shallow)
RECURSIVE SumRows(_, _, _, _)
SumRows(m, a, b, p) ==
  IF a = b THEN m[a][p]
  ELSE FAdd(SumRows(m, a, (a + b) \div 2, p), SumRows(m, (a + b) \div 2 + 1, b, p))

\* np.cumsum(xsq, axis=0): row t is the sum of the rows 1..t
CumSum(xsq) ==
  [t \in 1..Len(xsq) |-> [p \in 1..Len(xsq[t]) |-> SumRows(xsq, 1, t, p)]]

Min2(a, b) == IF a < b THEN a ELSE b
Max2(a, b) == IF a > b THEN a ELSE b

\* lines 92-94: row t (from 1) of out[:idx0 + 1] = csum[:idx0 + 1] / denom0
EnergyHead(csum, t, p, win) == FDiv(csum[t][p], Fin(t, 1))

\* lines 99-100: row t (from 1, t >= win) of out[win - 1:] = sums / win,
\* sums being csum[win - 1:] minus csum[:-win] below a row of zeros
EnergyTail(csum, t, p, win) ==
  FDiv(FSub(csum[t][p], IF t = win THEN Fin(0, 1) ELSE csum[t - win][p]),
       Fin(win, 1))

\* lines 81-82: the result for win <= 1
EnergyInstantRaw(x) == x
EnergyInstant(x) == Square(x)

\* _rolling_mse_energy(x, win), lines 67-102, x of T rows of P float32
RollingMseEnergy(x, win) ==
  IF Len(x) <= 0 THEN x
  ELSE IF win <= 1 THEN EnergyInstant(x)
  ELSE LET T == Len(x)
           csum == CumSum(Square(x))
           idx0 == Min2(win - 1, T - 1)
       IN [t \in 1..T |->
            [p \in 1..Len(x[t]) |->
               IF T > win /\ t >= win
               THEN EnergyTail(csum, t, p, win)
               ELSE EnergyHead(csum, t, p, win)]]

\* the call _rolling_mse_energy(x, win) runs and returns
EnergyArgs(x, win) == [method |-> "_rolling_mse_energy", x |-> x, win |-> win]
RollingMseCall ==
  /\ tfIn.method = "_rolling_mse_energy"
  /\ ~tfOut.returned
  /\ tfOut' = Returned(RollingMseEnergy(tfIn.x, tfIn.win))
  /\ UNCHANGED <<tfCfg, tfIn, acqVars, uiVars, wfVars, stopVars, tickVars, refVars, sideVars>>

\* the cells of a grid, row after row (np.ndarray.ravel)
RECURSIVE Flatten(_)
Flatten(m) == IF m = <<>> THEN <<>> ELSE Head(m) \o Flatten(Tail(m))

\* a ** g for the whole exponents g >= 1 (np.power)
RECURSIVE FPow(_, _)
FPow(a, g) == IF g.n = 1 THEN a ELSE FMul(a, FPow(a, Fin(g.n - 1, 1)))

\* line 147: the gamma g is applied
GammaApplies(g) ==
  /\ IsFinite(g)
  /\ FLess(Fin(0, 1), g)
  /\ FLess(Fin(1, 1000000), IF FLess(g, Fin(1, 1)) THEN FSub(Fin(1, 1), g) ELSE FSub(g, Fin(1, 1)))

\* lines 144-153: the float32 value that is converted to np.uint8, for the
\* cell y of y01
PostValue(y, cfg) ==
  LET yg == IF GammaApplies(cfg.gamma) THEN FPow(y, cfg.gamma) ELSE y
  IN IF cfg.invert THEN FMul(FSub(Fin(1, 1), yg), Fin(255, 1))
     ELSE FMul(yg, Fin(255, 1))

\* .astype(np.uint8) of one float32 value: the integer part of a value in
\* the range of np.uint8; the conversion of NaN, of an infinity and of a value
\* out of range is undefined in C, so that any byte may result
CastNearest(v) ==
  IF IsFinite(v) /\ FLess(Fin(-1, 1), v) /\ FLess(v, Fin(256, 1))
  THEN {(2 * v.n + v.d) \div (2 * v.d)}
  ELSE 0..255
CastUint8(v) ==
  IF IsFinite(v) /\ FLess(Fin(-1, 1), v) /\ FLess(v, Fin(256, 1))
  THEN {Trunc(v)}
  ELSE 0..255

\* the sequences that hold at each place i an element of sets[i]
RECURSIVE SeqProduct(_)
SeqProduct(sets) ==
  IF sets = <<>> THEN {<<>>}
  ELSE {<<h>> \o t : h \in Head(sets), t \in SeqProduct(Tail(sets))}

\* the np.uint8 grids that the conversion of the grid v of float32 values
\* can give
CastGrids(v) ==
  SeqProduct([r \in 1..Len(v) |-> SeqProduct([c \in 1..Len(v[r]) |-> CastUint8(v[r][c])])])

\* _post_to_gray(y01) up to the conversion, lines 142-153
PostValues(y01, cfg) ==
  [r \in 1..Len(y01) |-> [c \in 1..Len(y01[r]) |-> PostValue(y01[r][c], cfg)]]

\* the call _post_to_gray(y01) runs and returns
PostArgs(y01) == [method |-> "_post_to_gray", y01 |-> y01]
PostToGrayCall ==
  /\ tfIn.method = "_post_to_gray"
  /\ ~tfOut.returned
  /\ \E g \in CastGrids(PostValues(tfIn.y01, tfCfg)) : tfOut' = Returned(g)
  /\ UNCHANGED <<tfCfg, tfIn, acqVars, uiVars, wfVars, stopVars, tickVars, refVars, sideVars>>

\* np.percentile(x, p) of the flattened cells: NaN when a cell is NaN,
\* otherwise the linear interpolation between the two order statistics
\* around the index (n - 1) * p / 100
Percentile(cells, p) ==
  LET n == Len(cells)
      sorted == SortSeq(cells, FLess)
      idx == FDiv(FMul(Fin(n - 1, 1), p), Fin(100, 1))
      lower == Trunc(idx)
      frac == FSub(idx, Fin(lower, 1))
      a == sorted[lower + 1]
      b == sorted[Min2(lower + 2, n)]
      diff == FSub(b, a)
  IN IF \E i \in 1..n : cells[i].t = "nan" THEN NaN
     ELSE IF FLess(frac, Fin(1, 2)) THEN FAdd(a, FMul(diff, frac))
     ELSE FSub(b, FMul(diff, FSub(Fin(1, 1), frac)))

\* np.nanmin(x) and np.nanmax(x): the cells that are NaN are left out, and
\* the result is NaN when every cell is NaN
NanMin(cells) ==
  LET known == {i \in 1..Len(cells) : cells[i].t # "nan"}
  IN IF known = {} THEN NaN
     ELSE cells[CHOOSE i \in known : \A j \in known : FLeq(cells[i], cells[j])]
NanMax(cells) ==
  LET known == {i \in 1..Len(cells) : cells[i].t # "nan"}
  IN IF known = {} THEN NaN
     ELSE cells[CHOOSE i \in known : \A j \in known : FLeq(cells[j], cells[i])]

\* line 119: (hi - lo) < 1e-12. The percentiles of the blocks drawn below
\* differ by nothing or by 1/400 at least, so that the test is that of
\* hi - lo <= 0; a comparison with NaN is false
Tiny(d) == d.t # "nan" /\ FLeq(d, Fin(0, 1))

\* lines 111-114: the two percentiles of the configuration
PercentileLo(cfg) == cfg.p_lo
PercentileHi(cfg) ==
  IF FLeq(cfg.p_hi, cfg.p_lo) THEN FAdd(cfg.p_lo, Fin(1, 1000)) ELSE cfg.p_hi

\* lines 116-117: np.percentile raises ValueError ("Percentiles must be in
\* the range [0, 100]") for a percentile outside [0, 100]
PercentileInRange(p) == FLeq(Fin(0, 1), p) /\ FLeq(p, Fin(100, 1))
PercentileRaises(cfg) ==
  ~PercentileInRange(PercentileLo(cfg)) \/ ~PercentileInRange(PercentileHi(cfg))

\* line 119: the percentiles cannot be used and the extremes replace them
UsesFallback(feat, cfg) ==
  LET lo == Percentile(Flatten(feat), PercentileLo(cfg))
      hi == Percentile(Flatten(feat), PercentileHi(cfg))
  IN ~IsFinite(lo) \/ ~IsFinite(hi) \/ Tiny(FSub(hi, lo))

\* lines 116-121: the bounds lo and hi of the scaling
ScaleLo(feat, cfg) ==
  IF UsesFallback(feat, cfg) THEN NanMin(Flatten(feat))
  ELSE Percentile(Flatten(feat), PercentileLo(cfg))
ScaleHi(feat, cfg) ==
  IF UsesFallback(feat, cfg) THEN FAdd(NanMax(Flatten(feat)), Fin(1, 1000000))
  ELSE Percentile(Flatten(feat), PercentileHi(cfg))

\* lines 123-124: y = clip((x - lo) / (hi - lo), 0, 1)
Scaled(feat, cfg) ==
  LET lo == ScaleLo(feat, cfg)
      hi == ScaleHi(feat, cfg)
  IN [r \in 1..Len(feat) |-> [c \in 1..Len(feat[r]) |->
        Clip01(FDiv(FSub(feat[r][c], lo), FSub(hi, lo)))]]

\* _percentile_to_gray(feat) up to the conversion to np.uint8, lines 107-126
PercentileValues(feat, cfg) == PostValues(Scaled(feat, cfg), cfg)

\* the call _percentile_to_gray(feat) runs and returns, or raises
PercentileArgs(feat) == [method |-> "_percentile_to_gray", feat |-> feat]
PercentileToGrayCall ==
  /\ tfIn.method = "_percentile_to_gray"
  /\ ~tfOut.returned
  /\ IF PercentileRaises(tfCfg)
     THEN tfOut' = Raised("ValueError")
     ELSE \E g \in CastGrids(PercentileValues(tfIn.feat, tfCfg)) : tfOut' = Returned(g)
  /\ UNCHANGED <<tfCfg, tfIn, acqVars, uiVars, wfVars, stopVars, tickVars, refVars, sideVars>>

\* np.abs(x), line 42
FAbs(a) == IF a.t = "nan" THEN NaN ELSE IF a.n < 0 THEN FNeg(a) ELSE a

\* np.mean(x, axis=1)[r], line 50
RECURSIVE FSum(_)
FSum(cells) == IF cells = <<>> THEN Fin(0, 1) ELSE FAdd(Head(cells), FSum(Tail(cells)))
RowMean(row) == FDiv(FSum(row), Fin(Len(row), 1))

\* the feature grid of apply(block), lines 38-62. The modes "Log(dB)" and
\* "EnergyLog(MSE)" take a logarithm and have no arm here; every other name,
\* "Linear" and the window's "Energy (MSE dB)" among them, takes the default
\* of line 62
Features(x, cfg) ==
  CASE cfg.mode = "Abs" ->
         [r \in 1..Len(x) |-> [c \in 1..Len(x[r]) |-> FAbs(x[r][c])]]
    [] cfg.mode = "HP(MeanRemove)" ->
         [r \in 1..Len(x) |-> [c \in 1..Len(x[r]) |-> FSub(x[r][c], RowMean(x[r]))]]
    [] cfg.mode \notin {"Abs", "HP(MeanRemove)", "Log(dB)", "EnergyLog(MSE)"} -> x

\* apply(block) up to the conversion to np.uint8
ApplyValues(block, cfg) == PercentileValues(Features(block, cfg), cfg)

\* the call apply(block) runs and returns, or raises
ApplyArgs(block) == [method |-> "apply", block |-> block]
ApplyCall ==
  /\ tfIn.method = "apply"
  /\ ~tfOut.returned
  /\ IF PercentileRaises(tfCfg)
     THEN tfOut' = Raised("ValueError")
     ELSE \E g \in CastGrids(ApplyValues(tfIn.block, tfCfg)) : tfOut' = Returned(g)
  /\ UNCHANGED <<tfCfg, tfIn, acqVars, uiVars, wfVars, stopVars, tickVars, refVars, sideVars>>

----------------------------------------------------------------------------
(* MainWindow: the display tick, the time series and the controls.         *)
(* Times of time.time() are counted in units of 1/3000 s, times of the     *)
(* time series in units of 1/20000 s                                        *)

\* line 223: _min_ui_interval = 1/30 s; line 226: the timer period
\* int(1000 / 30) = 33 ms
MinUiInterval == 100
TimerPeriod == 99

\* lines 215-216: deque(maxlen=4000)
HistoryMax == 4000

\* deque.append on a deque of at most HistoryMax items
DequeAppendUnbounded(d, v) == Append(d, v)
DequeAppend(d, v) == IF Len(d) >= HistoryMax THEN Append(Tail(d), v) ELSE Append(d, v)

\* payload.get(key, default)
PayloadGet(pl, key, default) == IF key \in DOMAIN pl THEN pl[key] ELSE default

\* _parse_scan_rate_hz, lines 357-365, for the labels of the scan rate box
\* and for a text that is no number
ParseScanRateHz(label) ==
  CASE label = "1k" -> 1000
    [] label = "2k" -> 2000
    [] label = "4k" -> 4000
    [] label = "10k" -> 10000
    [] OTHER -> 1000

\* lines 385-388: _ts_dt = 1 / hz, in units of 1/20000 s
TsDt(cfg_scan) == 20000 \div ParseScanRateHz(cfg_scan)

Clamp(v, lo, hi) == IF v < lo THEN lo ELSE IF v > hi THEN hi ELSE v

\* lines 369-382: the column that is read, and the spin box after setRange
\* (the value of a spin box is kept inside its range; its signals are
\* blocked here)
TsColumn(point_count) ==
  LET col0 == IF tsCol < 0 THEN 0
              ELSE IF tsCol >= point_count
              THEN (IF point_count > 0 THEN point_count - 1 ELSE 0)
              ELSE tsCol
  IN IF tsLastPc # point_count THEN Min2(col0, Max2(0, point_count - 1)) ELSE col0
TsRangeMax(point_count) ==
  IF tsLastPc # point_count THEN Max2(0, point_count - 1) ELSE tsColMax

\* lines 390-396: the history after the samples y are appended, dt apart
RECURSIVE TsAppend(_, _, _)
TsAppend(h, y, dt) ==
  IF y = <<>> THEN h
  ELSE TsAppend([t |-> DequeAppend(h.t, h.last + dt),
                 y |-> DequeAppend(h.y, Head(y)),
                 last |-> h.last + dt],
                Tail(y), dt)

\* _update_timeseries_from_block, lines 367-396: the history it leaves (the
\* chart drawn from it is not modelled)
UpdateTimeseries(block, cfg_scan, point_count) ==
  TsAppend([t |-> tsT, y |-> tsY, last |-> tsLastT],
           [r \in 1..Len(block) |-> block[r][TsColumn(point_count) + 1]],
           TsDt(cfg_scan))

\* lines 398-421: the points handed to the chart. target = 800 (line 414),
\* step = max(1, n // target), and the points are those of range(0, n, step)
ChartTarget == 800
ChartStep(n) == Max2(1, n \div ChartTarget)
ChartCount(n) == (n + ChartStep(n) - 1) \div ChartStep(n)
ChartPoints(t, y) ==
  IF Len(y) < 2 THEN <<>>
  ELSE [k \in 1..ChartCount(Len(y)) |->
          <<t[(k - 1) * ChartStep(Len(y)) + 1], y[(k - 1) * ChartStep(Len(y)) + 1]>>]

\* the chart part of one call _update_timeseries_from_block
ChartArgs == [method |-> "chart"]
ChartCall ==
  /\ tfIn = ChartArgs
  /\ ~tfOut.returned
  /\ tfOut' = Returned(ChartPoints(tsT, tsY))
  /\ UNCHANGED <<tfCfg, tfIn, acqVars, uiVars, wfVars, stopVars, tickVars, refVars, sideVars>>

\* _sync_transform_params, lines 290-298
SyncIgnoreControls(cfg, c) == [cfg EXCEPT !.mode = "Energy (MSE dB)"]
SyncTransformParams(cfg, c) ==
  [cfg EXCEPT !.mode = "Energy (MSE dB)", !.energy_win = c.energy_win, !.vmin = c.vmin,
              !.vmax = c.vmax, !.gamma = c.gamma, !.eps = c.eps, !.invert = c.invert]

\* the branch of apply that the mode of the configuration selects, lines 41-62
ApplyBranch(cfg) ==
  CASE cfg.mode = "Abs" -> "Abs"
    [] cfg.mode = "Log(dB)" -> "Log(dB)"
    [] cfg.mode = "HP(MeanRemove)" -> "HP(MeanRemove)"
    [] cfg.mode = "EnergyLog(MSE)" -> "EnergyLog(MSE)"
    [] OTHER -> "Linear"

\* lines 445-452: the block that is shown; ok is false when the tick returns
\* or reshape raises
TickBlock(pl) ==
  LET pcount == pl.point_count
      cells == Flatten(pl.block)
  IN IF pcount <= 0 \/ pl.cb_lines <= 0 THEN [ok |-> FALSE, block |-> <<>>]
     ELSE IF \A r \in 1..Len(pl.block) : Len(pl.block[r]) = pcount
     THEN [ok |-> TRUE, block |-> pl.block]
     ELSE IF Len(cells) % pcount # 0 \/ Len(cells) = 0 THEN [ok |-> FALSE, block |-> <<>>]
     ELSE [ok |-> TRUE, block |-> Reshape(cells, Len(cells) \div pcount, pcount)]

\* lines 449-450: block.reshape((-1, point_count)) raises ValueError, which
\* the handler of lines 477-478 reports in the status line
ReshapeRaises(pl) ==
  /\ pl.point_count > 0
  /\ pl.cb_lines > 0
  /\ \E r \in 1..Len(pl.block) : Len(pl.block[r]) # pl.point_count
  /\ Len(Flatten(pl.block)) % pl.point_count # 0

\* lines 428-431: the throttle rejects a tick at time now
ThrottledNever(now, last) == FALSE
Throttled(now, last) == now - last < MinUiInterval

\* _tick, lines 423-478, at time.time() = clock
Tick ==
  /\ stopPc = "idle"
  /\ LET r == CacheTake(latest, SelectedKey(sel)) IN
       /\ ret' = r.payload
       /\ latest' = r.cache
       /\ IF r.payload = None \/ Throttled(clock, lastUpdate)
          THEN UNCHANGED <<wfVars, tfCfg, tickVars, status>>
          ELSE /\ lastUpdate' = clock
               /\ LET sh == TickBlock(r.payload)
                      pcount == r.payload.point_count
                  IN IF ~sh.ok
                     THEN /\ status' = IF ReshapeRaises(r.payload)
                                         THEN StatusRenderError ELSE status
                          /\ UNCHANGED <<wfVars, tfCfg, tsT, tsY, tsLastT, tsCol, tsColMax,
                                         tsLastPc, wfSrcW>>
                     ELSE LET h == UpdateTimeseries(sh.block,
                                     PayloadGet(r.payload, "cfg_scan_rate", ""), pcount)
                              cfg == SyncTransformParams(tfCfg, ctl)
                              buf == IF wfW # 0 /\ wfW = pcount THEN wf ELSE Zeros(wfH, pcount)
                          IN /\ tsT' = h.t
                             /\ tsY' = h.y
                             /\ tsLastT' = h.last
                             /\ tsColMax' = TsRangeMax(pcount)
                             /\ tsCol' = Min2(tsCol, TsRangeMax(pcount))
                             /\ tsLastPc' = pcount
                             /\ tfCfg' = cfg
                             /\ wfW' = pcount
                             /\ wfSrcW' = pcount
                             /\ \E g \in CastGrids(ApplyValues(sh.block, cfg)) :
                                  wf' = Scroll(buf, wfH, g)
                             /\ status' = StatusShow
                             /\ UNCHANGED wfH
               /\ UNCHANGED ctl
  /\ UNCHANGED <<sel, acqVars, stopVars, tfIn, tfOut, refVars, cons2, cons2Item, wcfg>>

\* the operator changes transform controls to the values c; valueChanged and
\* stateChanged are connected to _poke_refresh (lines 233-238)
SetControls(c) ==
  /\ stopPc = "idle"
  /\ ctl' = c
  /\ lastUpdate' = PokeRefresh(ctl # c, lastUpdate)
  /\ UNCHANGED <<acqVars, uiVars, wfVars, stopVars, tfVars, refVars, sideVars,
                 tsT, tsY, tsLastT, tsCol, tsColMax, tsLastPc, wfSrcW>>

\* the operator sets ts_col to v; valueChanged is connected to _poke_refresh
\* (line 239)
EditTsCol(v) ==
  /\ stopPc = "idle"
  /\ v \in 0..tsColMax
  /\ tsCol' = v
  /\ lastUpdate' = PokeRefresh(tsCol # v, lastUpdate)
  /\ UNCHANGED <<acqVars, uiVars, wfVars, stopVars, tfVars, refVars, sideVars,
                 tsT, tsY, tsLastT, tsColMax, tsLastPc, ctl, wfSrcW>>

\* _x_to_col_exact, lines 300-333, for a click on pixel x of a display of
\* dst_w pixels
\* the same for a click at x = xn / xd (QPointF.x() is a float), xd > 0: x is
\* clamped to [0, dst_w - 1], u = (x + 0.5) * src_w / dst_w, col = int(u)
XToColEdge(xn, xd, src_w, dst_w) ==
  IF src_w <= 1 \/ dst_w <= 1 THEN 0
  ELSE LET c == Clamp(xn, 0, (dst_w - 1) * xd)
       IN Clamp((c * src_w) \div (xd * dst_w), 0, src_w - 1)
XToColExactQ(xn, xd, src_w, dst_w) ==
  IF src_w <= 1 \/ dst_w <= 1 THEN 0
  ELSE LET c == Clamp(xn, 0, (dst_w - 1) * xd)
       IN Clamp(((2 * c + xd) * src_w) \div (2 * xd * dst_w), 0, src_w - 1)
XToColExact(x, src_w, dst_w) == XToColExactQ(x, 1, src_w, dst_w)

\* one call _x_to_col_exact(x_px) of the window
XToColArgs(xn, xd, dst_w) ==
  [method |-> "_x_to_col_exact", xn |-> xn, xd |-> xd, dst_w |-> dst_w]
XToColCall ==
  /\ tfIn.method = "_x_to_col_exact"
  /\ ~tfOut.returned
  /\ tfOut' = Returned(XToColExactQ(tfIn.xn, tfIn.xd, wfSrcW, tfIn.dst_w))
  /\ UNCHANGED <<tfCfg, tfIn, acqVars, uiVars, wfVars, stopVars, tickVars, refVars, sideVars>>

\* eventFilter, lines 336-355: a click on the waterfall at pixel x
Click(x, dst_w) ==
  LET col == Clamp(XToColExact(x, wfSrcW, dst_w), 0, tsColMax) IN
  /\ stopPc = "idle"
  /\ tsCol' = col
  /\ lastUpdate' = PokeRefresh(tsCol # col, lastUpdate)
  /\ tsT' = <<>>
  /\ tsY' = <<>>
  /\ UNCHANGED <<acqVars, uiVars, wfVars, stopVars, tfVars, refVars, sideVars,
                 tsLastT, tsColMax, tsLastPc, ctl, wfSrcW>>

----------------------------------------------------------------------------
(* Initial states *)

\* AcquisitionWorker.__init__, lines 25-39
InitWorker ==
  /\ running = FALSE
  /\ drvOn = FALSE
  /\ registered = {}
  /\ queue = <<>>
  /\ cons = "none"
  /\ consItem = None
  /\ sigq = <<>>
  /\ pc = [p \in Producers |-> "idle"]
  /\ loc = [p \in Producers |-> NoLocals]
  /\ clock = 0

\* MainWindow.__init__, lines 61-64 and 212
InitWindow ==
  /\ latest = [k \in Keys |-> None]
  /\ sel = <<"1", "phase">>
  /\ ret = None

\* WaterfallRenderer.__init__
InitRenderer ==
  /\ wfW = 0
  /\ wf = <<>>

\* no stop() is being executed
InitStopper == stopPc = "idle"

\* MainWindow.__init__: lines 67-69 (ts_col), 71-100 (the transform
\* controls), 215-222 and 241
ControlDefaults ==
  [energy_win |-> 32, vmin |-> Fin(-6, 1), vmax |-> Fin(0, 1), gamma |-> Fin(1, 1),
   eps |-> Fin(1, 1000000), invert |-> TRUE]
InitTick ==
  /\ lastUpdate = 0
  /\ tsT = <<>>
  /\ tsY = <<>>
  /\ tsLastT = 0
  /\ tsCol = 0
  /\ tsColMax = 0
  /\ tsLastPc = -1
  /\ ctl = ControlDefaults
  /\ wfSrcW = 0

\* AcquisitionWorker.__init__, line 39
InitRefs == cbRefs = {}

\* AcquisitionWorker.__init__, lines 30-36: no consumer thread, and the
\* cfg_* fields (scan rate label, mode label, pulse width, scale down)
WorkerConfig ==
  [scan_rate |-> "10k", mode |-> "Coherent Suppression", pulse_width |-> 100,
   scale_down |-> 5]
InitSide ==
  /\ cons2 = "none"
  /\ cons2Item = None
  /\ status = StatusIdle
  /\ wcfg = WorkerConfig

\* WaterfallTransform.__init__, lines 17-35; no method was called yet
InitTransform ==
  /\ tfCfg = TransformDefaults
  /\ tfIn = NoCall
  /\ tfOut = Pending

----------------------------------------------------------------------------
(* Spec: a worker on its own under the four driver callbacks *)

\* callback arguments of the started driver: well formed (one line of one
\* sample), no line, truncated buffer, empty buffer, no point
ArgsConc == {CbArgs(1, 1, 4), CbArgs(1, 2, 4), CbArgs(1, 1, 3), CbArgs(1, 1, 0),
             CbArgs(1, 0, 4)}

\* the started driver invokes callback p
DriverCallback(p) ==
  /\ drvOn
  /\ p \in registered
  /\ \E a \in ArgsConc : CbEnter(p, a, clock)
  /\ UNCHANGED budget

RegSets == {r \in SUBSET Producers : Cardinality(r) <= MaxRegistered}

Init ==
  /\ InitWorker /\ InitWindow /\ InitRenderer /\ InitStopper /\ InitTick /\ InitRefs /\ InitSide /\ InitTransform
  /\ connected = FALSE
  /\ budget = 0
  /\ wfH = 600

Next ==
  \/ \E regs \in RegSets, ok \in BOOLEAN : StartIdle(regs, ok)
  \/ \E p \in Producers : DriverCallback(p)
  \/ \E p \in Producers : CbStep(p)
  \/ Consumer

Spec == Init /\ [][Next]_vars

\* C1: under every interleaving of the callbacks and the consumer, a
\* well-formed block is in the queue (as its newest item) when _on_block
\* returns, and an item lost to make room is the oldest queued item.
C1_EnqueueNeverFails ==
  [][\A p \in Producers :
       /\ (pc[p] = "put" /\ pc'[p] # "put") =>
             /\ Len(queue') = Len(queue) + 1
             /\ queue'[Len(queue')] = loc[p].payload
       /\ (pc[p] = "evict" /\ pc'[p] = "put" /\ queue' # queue) =>
             queue' = Tail(queue)]_vars

\* C3: in every reachable state the ingestion queue holds at most 6 blocks.
C3_QueueBounded == Len(queue) <= QueueMax

\* a callback is about to put while the queue is full
C3_Witness == Len(queue) = QueueMax /\ \E p \in Producers : pc[p] = "put"

\* C4: _on_block never raises to its caller and never blocks: no exception
\* leaves it, and a callback inside _on_block can always take its next step,
\* whatever the arguments and the state of the queue.
C4_NeverBlocksNeverRaises ==
  \A p \in Producers :
    /\ pc[p] # "raised"
    /\ pc[p] # "idle" => ENABLED CbStep(p)

\* two callbacks are about to put into a queue with room for one: the second
\* put raises queue.Full inside _on_block
C4_Witness ==
  /\ Len(queue) = QueueMax - 1
  /\ \E p, q \in Producers : p # q /\ pc[p] = "put" /\ pc[q] = "put"

\* C40: when the status line reports "Running" after a start, the worker
\* runs
C40_RunningStatusMeansRunning == status = StatusRunning => running

\* C22: when the driver's open() or start() fails during start, the worker
\* ends in a clean state: not running, no consumer thread started and no
\* callback held in _cb_refs
C22_FailedStartClean ==
  \A regs \in RegSets :
    ~running =>
      ~ENABLED (/\ Start(regs, FALSE)
                /\ ~(~running' /\ cons' = cons /\ cbRefs' = {}))

----------------------------------------------------------------------------
(* SpecSeq: one caller enqueues capacity + 1 well-formed blocks, the        *)
(* consumer thread dequeues                                                 *)

\* well-formed blocks: one line of one sample, one line of two samples
ArgsSeq == {CbArgs(1, 1, 4), CbArgs(0, 2, 8)}

\* the caller's next call of _on_block, one clock tick after the previous one
SeqCall ==
  /\ budget > 0
  /\ budget' = budget - 1
  /\ \E a \in ArgsSeq : CbEnter(1, a, clock + 1)

InitSeq ==
  /\ InitWorker /\ InitWindow /\ InitRenderer /\ InitStopper /\ InitTick /\ InitRefs /\ InitSide /\ InitTransform
  /\ connected = TRUE
  /\ budget = QueueMax + 1
  /\ wfH = 600

NextSeq ==
  \/ \E ok \in BOOLEAN : Start({1}, ok)
  \/ SeqCall
  \/ CbStep(1)
  \/ Consumer

SpecSeq == InitSeq /\ [][NextSeq]_vars

\* the blocks dequeued so far followed by the blocks still queued
Drained == sigq \o (IF consItem = None THEN <<>> ELSE <<consItem>>) \o queue

\* all capacity + 1 calls have returned and nothing was dequeued meanwhile
SeqFilled == budget = 0 /\ pc[1] = "idle" /\ sigq = <<>> /\ consItem = None

\* C2: a single producer enqueues capacity + 1 = 7 well-formed blocks with no
\* dequeue in between; draining then yields exactly 6 blocks, the 2nd to the
\* 7th in their enqueue order: the first block enqueued is not among them.
C2_DropOldestSequential ==
  [](SeqFilled =>
       [](/\ Len(Drained) = QueueMax
          /\ \A i \in 1..QueueMax : Drained[i].ts = i + 1))

\* the seven blocks were enqueued and the queue was drained afterwards
C2_Witness ==
  /\ budget = 0 /\ pc[1] = "idle" /\ queue = <<>> /\ consItem = None
  /\ Len(sigq) = QueueMax
  /\ sigq[1].ts = 2

----------------------------------------------------------------------------
(* SpecDecode: one caller, callbacks with every combination of arguments   *)

ArgsAll ==
  {[lines |-> l, point_count |-> pcnt, size |-> sz, seed |-> 0] :
     l \in -1..MaxDim, pcnt \in -1..MaxDim, sz \in -1..(SampleBytes * MaxSamples)}

\* the driver calls callback 1 with the arguments a
DecodeCallWith(a) ==
  /\ budget > 0
  /\ budget' = budget - 1
  /\ CbEnter(1, a, clock + 1)

DecodeCall == \E a \in ArgsAll : DecodeCallWith(a)

\* the block of an earlier well-formed callback of one sample
EarlierBlock == BuildPayload(1, CbArgs(1, 1, SampleBytes), 0).payload

\* the queue is empty, or is full of the blocks of earlier callbacks
InitDecode ==
  /\ running = FALSE
  /\ drvOn = FALSE
  /\ registered = {}
  /\ queue \in {<<>>, [i \in 1..QueueMax |-> EarlierBlock]}
  /\ cons = "none"
  /\ consItem = None
  /\ sigq = <<>>
  /\ pc = [p \in Producers |-> "idle"]
  /\ loc = [p \in Producers |-> NoLocals]
  /\ clock = 0
  /\ InitWindow /\ InitRenderer /\ InitStopper /\ InitTick /\ InitRefs /\ InitSide /\ InitTransform
  /\ connected = FALSE
  /\ budget = MaxDecodeCalls
  /\ wfH = 600

NextDecode ==
  \/ DecodeCall
  \/ CbStep(1)

SpecDecode == InitDecode /\ [][NextDecode]_vars

\* the callback carries N whole float32 samples for point_count >= 1
Decodable(a) == a.point_count >= 1 /\ a.size > 0 /\ a.size % SampleBytes = 0
SampleCount(a) == a.size \div SampleBytes
\* sample k (from 1) of the buffer: bytes 4k-4 .. 4k-1
SampleAt(a, k) ==
  <<BufByte(a.seed, 4 * k - 4), BufByte(a.seed, 4 * k - 3),
    BufByte(a.seed, 4 * k - 2), BufByte(a.seed, 4 * k - 1)>>
\* the lines hint fits the decoded samples
HintFits(a) == a.lines > 0 /\ a.lines * a.point_count <= SampleCount(a)
\* block b holds, row by row, the first Len(b) * point_count samples of a
FirstSamples(a, b) ==
  \A r \in 1..Len(b) :
    /\ Len(b[r]) = a.point_count
    /\ \A c \in 1..a.point_count : b[r][c] = SampleAt(a, (r - 1) * a.point_count + c)

\* callback context 1 puts its block into the queue in this step
Enqueues == pc[1] = "put" /\ Len(queue') = Len(queue) + 1
Enqueued == queue'[Len(queue')]

\* C5 as stated: whatever the lines hint, the enqueued block has exactly
\* floor(N / P) rows.
C5_RowsFloorWhateverHint ==
  [][Enqueues =>
       (Decodable(loc[1].args) =>
          Len(Enqueued.block) = SampleCount(loc[1].args) \div loc[1].args.point_count)]_vars

\* C5 amended: the enqueued block has exactly L rows when the lines hint L
\* fits (L >= 1 and L * P <= N) and floor(N / P) rows otherwise; it holds the
\* first rows * P samples and the samples after them are excluded.
C5_RowsHintOrFloor ==
  [][Enqueues =>
       LET a == loc[1].args IN
         /\ Decodable(a)
         /\ Len(Enqueued.block) =
              IF HintFits(a) THEN a.lines ELSE SampleCount(a) \div a.point_count
         /\ Len(Enqueued.block) * a.point_count <= SampleCount(a)
         /\ FirstSamples(a, Enqueued.block)]_vars

\* a block was enqueued whose hint fitted and was below floor(N / P), with a
\* remainder
C5_Witness ==
  /\ pc[1] = "put"
  /\ HintFits(loc[1].args)
  /\ loc[1].args.lines < SampleCount(loc[1].args) \div loc[1].args.point_count
  /\ SampleCount(loc[1].args) % loc[1].args.point_count # 0
  /\ Len(queue) = 1

\* the callback's hint does not fit (non-positive, or beyond the samples)
\* and the samples hold at least one line
Recomputed(a) ==
  Decodable(a) /\ ~HintFits(a) /\ SampleCount(a) \div a.point_count >= 1

\* the outcome of a callback whose line count is recomputed: a block of
\* total // point_count lines is on its way into the queue
RecomputedBlock(a) ==
  /\ pc'[1] \in {"evict", "put"}
  /\ loc'[1].payload.cb_lines = SampleCount(a) \div a.point_count
  /\ FirstSamples(a, loc'[1].payload.block)

\* C6: with a lines hint that is non-positive or beyond the decoded samples,
\* _on_block builds the block with total_samples // point_count lines from
\* the first lines * point_count samples; every enqueued block has shape
\* (cb_lines, point_count) with cb_lines >= 1 and holds buffer samples only
\* (no padding).
C6_UnreliableHintRecomputed ==
  /\ [](\A a \in ArgsAll :
         (Recomputed(a) /\ budget > 0 /\ pc[1] = "idle") =>
            (/\ ENABLED DecodeCallWith(a)
             /\ ~ENABLED (DecodeCallWith(a) /\ ~RecomputedBlock(a))))
  /\ [][Enqueues =>
          (/\ Enqueued.cb_lines >= 1
           /\ Len(Enqueued.block) = Enqueued.cb_lines
           /\ Enqueued.point_count = loc[1].args.point_count
           /\ Enqueued.cb_lines * Enqueued.point_count <= SampleCount(loc[1].args)
           /\ FirstSamples(loc[1].args, Enqueued.block))]_vars

\* a block is about to be enqueued whose hint was beyond the samples, with a
\* remainder that is cut off
C6_Witness ==
  /\ pc[1] = "put"
  /\ Recomputed(loc[1].args)
  /\ loc[1].args.lines > 0
  /\ SampleCount(loc[1].args) % loc[1].args.point_count # 0
  /\ loc[1].payload.cb_lines = SampleCount(loc[1].args) \div loc[1].args.point_count

\* point_count <= 0, size <= 0, a byte count that is no multiple of 4, or a
\* resulting line count of 0
Malformed(a) ==
  \/ a.point_count <= 0
  \/ a.size <= 0
  \/ a.size % SampleBytes # 0
  \/ SampleCount(a) \div a.point_count = 0

\* a step that changes the time and nothing else of the worker
Dropped ==
  UNCHANGED <<running, drvOn, registered, connected, queue, cons, consItem, sigq,
              pc, loc>>

\* C7: a malformed callback leaves the queue and the callback context as
\* they were (only the time has passed), so the well-formed callback after
\* it is handled as if the malformed one had never occurred.
C7_MalformedDropped ==
  \A a \in ArgsAll :
    (Malformed(a) /\ budget > 0 /\ pc[1] = "idle") =>
       (/\ ENABLED DecodeCallWith(a)
        /\ ~ENABLED (DecodeCallWith(a) /\ ~Dropped))

\* the first call was malformed and left nothing, the second one is enqueued
C7_Witness ==
  /\ pc[1] = "idle"
  /\ Len(queue) = 1
  /\ queue[1].ts = 2

----------------------------------------------------------------------------
(* SpecCache: the stream cache under on_data_ready, the selection and       *)
(* _pull_selected_payload                                                   *)

\* the payload of stream key k emitted at time t: one line of one sample
CachePayload(k, t) ==
  [channel |-> k[1], kind |-> k[2], cb_lines |-> 1, point_count |-> 1,
   block |-> <<<<SampleAt(CbArgs(1, 1, 4), 1)>>>>, ts |-> t]

\* a data_ready signal of stream key k is delivered to on_data_ready
Publish(k) ==
  /\ clock < MaxPublishes
  /\ clock' = clock + 1
  /\ OnDataReady(CachePayload(k, clock + 1))
  /\ UNCHANGED <<running, drvOn, registered, connected, queue, cons, consItem, sigq,
                 pc, loc, budget, wfVars, stopVars, tfVars, tickVars, refVars, sideVars>>

InitCache ==
  /\ InitWorker /\ InitWindow /\ InitRenderer /\ InitStopper /\ InitTick /\ InitRefs /\ InitSide /\ InitTransform
  /\ connected = TRUE
  /\ budget = 0
  /\ wfH = 600

NextCache ==
  \/ \E k \in Keys : Publish(k)
  \/ \E ch \in ChannelItems, kind \in KindItems : SelectStream(ch, kind)
  \/ PullSelectedPayload

SpecCache == InitCache /\ [][NextCache]_vars

CachePayloads == {CachePayload(k, t) : k \in Keys, t \in 1..MaxPublishes}
KeyOfPayload(pl) == <<pl.channel, pl.kind>>

\* the cache entry of pl's key holds a payload published after pl, and pl is
\* not the value the last pull returned: pl was replaced unread
Replaced(pl) ==
  /\ latest[KeyOfPayload(pl)] # None
  /\ latest[KeyOfPayload(pl)].ts > pl.ts
  /\ ret # pl

\* C8: latest wins. on_data_ready stores its payload over whatever the entry
\* of the key held; the entry then changes only by a publish or a pull of
\* that key; the next pull of the key returns the entry, that is the payload
\* published last; and a payload replaced unread is never returned by a later
\* pull.
C8_LatestWins ==
  /\ [][(\A k \in Keys : Publish(k) => latest'[k] = CachePayload(k, clock + 1))
        /\ (\A k \in Keys :
              latest'[k] # latest[k] =>
                 (Publish(k) \/ (PullSelectedPayload /\ SelectedKey(sel) = k)))
        /\ (PullSelectedPayload => ret' = latest[SelectedKey(sel)])]_vars
  /\ \A pl \in CachePayloads : [](Replaced(pl) => [](ret # pl))

\* two payloads of one key were published with no pull in between, and the
\* pull after them returned the second
C8_Witness ==
  /\ clock = 2
  /\ ret # None
  /\ ret.ts = 2
  /\ \A k \in Keys : latest[k] = None

\* C9: _pull_selected_payload returns the entry of the selected key and
\* clears it in the same step, so that a second pull finds it empty; on an
\* empty entry it returns None and changes nothing; the entries of the
\* three other keys are left unchanged, and only on_data_ready fills an entry.
C9_PullReturnsAndClears ==
  [][/\ PullSelectedPayload =>
          (/\ ret' = latest[SelectedKey(sel)]
           /\ latest'[SelectedKey(sel)] = None
           /\ \A k \in Keys \ {SelectedKey(sel)} : latest'[k] = latest[k]
           /\ latest[SelectedKey(sel)] = None => (ret' = None /\ latest' = latest))
     /\ \A k \in Keys : (latest[k] = None /\ latest'[k] # None) => Publish(k)]_vars

\* a pull returned the entry of the selected key and left the entry of
\* another key in place
C9_Witness ==
  /\ ret # None
  /\ KeyOfPayload(ret) = SelectedKey(sel)
  /\ latest[SelectedKey(sel)] = None
  /\ \E k \in Keys : latest[k] # None

----------------------------------------------------------------------------
(* SpecRender: the renderer under ensure and push_block                     *)

\* widths and gray levels of the pushed grids
Widths == {1, 2}
Grays == {0, 255}

\* the 2-D grids of n rows and w columns
Grids2D(n, w) == [ndim : {2}, width : {w}, rows : [1..n -> [1..w -> Grays]]]
\* a 1-D array of w gray levels
Grids1D(w) == [ndim : {1}, width : {w}, rows : {<<>>}]

\* grids of up to wfH + 1 rows
Grids ==
  UNION {Grids2D(n, w) : n \in 0..(wfH + 1), w \in Widths}
    \cup UNION {Grids1D(w) : w \in Widths}

InitRender ==
  /\ InitWorker /\ InitWindow /\ InitRenderer /\ InitStopper /\ InitTick /\ InitRefs /\ InitSide /\ InitTransform
  /\ connected = FALSE
  /\ budget = 0
  /\ wfH \in 1..MaxHeight

NextRender ==
  \/ \E w \in {0} \cup Widths : Ensure(w)
  \/ \E g \in Grids : PushBlock(g)

SpecRender == InitRender /\ [][NextRender]_vars

\* the buffer after the push is the buffer before it scrolled up by the rows
\* of g
ScrolledBy(g) ==
  /\ Len(wf') = wfH
  /\ \A i \in 1..Len(g.rows) : wf'[wfH - Len(g.rows) + i] = g.rows[i]
  /\ \A i \in 1..(wfH - Len(g.rows)) : wf'[i] = wf[i + Len(g.rows)]

\* C10: after push_block of a grid of n rows, 1 <= n < H, of matching width,
\* the last n rows of the buffer equal the grid and rows [0, H-n) equal the
\* rows [n, H) the buffer held before: push_block of such a grid can run and
\* has no outcome other than the scrolled buffer.
C10_RendererScroll ==
  wfW # 0 =>
    \A n \in 1..(wfH - 1) :
      \A g \in Grids2D(n, wfW) :
        /\ ENABLED PushBlock(g)
        /\ ~ENABLED (PushBlock(g) /\ ~ScrolledBy(g))

\* two pushes of one row each onto a buffer of three rows: the first row
\* pushed has scrolled up by one
C10_Witness ==
  /\ wfH = 3
  /\ wfW = 2
  /\ wf = <<<<0, 0>>, <<255, 0>>, <<0, 255>>>>

\* the buffer after the push holds the last wfH rows of g and nothing of the
\* buffer before it
ReplacedBy(g) ==
  wf' = SubSeq(g.rows, Len(g.rows) - wfH + 1, Len(g.rows))

\* a grid of n rows of one column, row r holding r % 256
Ramp(n) == [r \in 1..n |-> <<r % 256>>]

\* C11: push_block of a grid of n >= H rows of matching width replaces the
\* whole buffer with the last H rows of the grid, whatever the buffer held;
\* for H = 600 and n = 601 the buffer is rows [1, 601) of the grid.
C11_RendererOverflow ==
  /\ wfW # 0 =>
       \A n \in wfH..(wfH + 1) :
         \A g \in Grids2D(n, wfW) :
           /\ ENABLED PushBlock(g)
           /\ ~ENABLED (PushBlock(g) /\ ~ReplacedBy(g))
  /\ Scroll(Zeros(WfHeight, 1), WfHeight, Ramp(WfHeight + 1))
       = [r \in 1..WfHeight |-> <<(r + 1) % 256>>]

\* a buffer of two rows after a push of three rows: the first row pushed is
\* not in it
C11_Witness ==
  /\ wfH = 2
  /\ wfW = 2
  /\ wf = <<<<255, 255>>, <<0, 255>>>>

\* the outcome of ensure(width), width > 0: a zeroed buffer of wfH rows of
\* width columns when there was none or its width differed, the buffer as it
\* was otherwise
Ensured(width) ==
  /\ wfH' = wfH
  /\ wfW' = width
  /\ wf' = IF wfW = 0 \/ wfW # width THEN Zeros(wfH, width) ELSE wf

\* C12: ensure(width) with width > 0 makes the buffer an all-zero H x width
\* grid when it does not exist or its width differs, and leaves it unchanged
\* when the width is the same; an allocated buffer always has exactly H rows
\* of wf_width columns.
C12_EnsureAndShape ==
  /\ \A w \in Widths :
       /\ ENABLED Ensure(w)
       /\ ~ENABLED (Ensure(w) /\ ~Ensured(w))
  /\ wfW # 0 =>
       /\ Len(wf) = wfH
       /\ \A r \in 1..wfH : Len(wf[r]) = wfW

\* a buffer that was filled at width 2 and then reallocated at width 1
C12_Witness ==
  /\ wfH = 2
  /\ wfW = 1
  /\ wf = <<<<0>>, <<0>>>>

----------------------------------------------------------------------------
(* SpecEnergy: calls of _rolling_mse_energy on blocks of up to MaxRows rows *)

\* float32 samples of the blocks: two finite values and +inf
EnergyValues == {Fin(-1, 1), Fin(2, 1), Inf(1)}
EnergyBlocks ==
  UNION {[1..T -> [1..P -> EnergyValues]] : T \in 0..MaxRows, P \in 1..2}
Windows == (-1)..MaxWin

InitEnergy ==
  /\ InitWorker /\ InitWindow /\ InitRenderer /\ InitStopper /\ InitTick /\ InitRefs /\ InitSide
  /\ tfCfg = TransformDefaults
  /\ tfIn \in {EnergyArgs(x, win) : x \in EnergyBlocks, win \in Windows}
  /\ tfOut = Pending
  /\ connected = FALSE
  /\ budget = 0
  /\ wfH = WfHeight

NextEnergy == RollingMseCall

SpecEnergy == InitEnergy /\ [][NextEnergy]_vars

\* _rolling_mse_energy has returned
EnergyCalled == tfIn.method = "_rolling_mse_energy" /\ tfOut.returned

\* the sum of x[k][p]^2 over the rows k in a..b, a <= b
SumSq(x, a, b, p) == SumRows(Square(x), a, b, p)


\* the mean of x[k][p]^2 over the w rows ending at row t (rows from 1), fewer
\* at the start of the block
MeanSq(x, t, p, w) ==
  FDiv(SumSq(x, Max2(1, t - w + 1), t, p), Fin(t - Max2(1, t - w + 1) + 1, 1))

\* 40 rows of 4 samples, row r holding r
RampBlock == [r \in 1..40 |-> [p \in 1..4 |-> Fin(r, 1)]]

\* C13 as stated: for every T x P input and every window w >= 1 the result
\* holds at row t, column p the mean of x[k][p]^2 over the w rows ending at
\* t (from the block start while t < w); for w = 32 and T = 40 the last row
\* is the mean over rows [8..39] and row 0 is x[0]^2.
C13_RollingMeanOfSquares ==
  /\ (EnergyCalled /\ tfIn.win >= 1) =>
        \A t \in 1..Len(tfIn.x) : \A p \in 1..Len(tfIn.x[t]) :
          tfOut.value[t][p] = MeanSq(tfIn.x, t, p, tfIn.win)
  /\ \A p \in 1..4 :
        /\ RollingMseEnergy(RampBlock, TransformDefaults.energy_win)[40][p]
             = FDiv(SumSq(RampBlock, 9, 40, p), Fin(32, 1))
        /\ RollingMseEnergy(RampBlock, TransformDefaults.energy_win)[1][p]
             = FMul(RampBlock[1][p], RampBlock[1][p])

\* C14: with a window <= 1 (0 and negative values included) the result
\* holds x[t][p]^2 at every row t and column p.
C14_WindowOneIsSquare ==
  (EnergyCalled /\ tfIn.win <= 1) =>
     /\ Len(tfOut.value) = Len(tfIn.x)
     /\ \A t \in 1..Len(tfIn.x) :
          /\ Len(tfOut.value[t]) = Len(tfIn.x[t])
          /\ \A p \in 1..Len(tfIn.x[t]) :
               tfOut.value[t][p] = FMul(tfIn.x[t][p], tfIn.x[t][p])

\* a call with window 0 has returned the squares of a block of two rows
C14_Witness ==
  /\ EnergyCalled
  /\ tfIn.win = 0
  /\ tfIn.x = <<<<Fin(-1, 1)>>, <<Fin(2, 1)>>>>
  /\ tfOut.value = <<<<Fin(1, 1)>>, <<Fin(4, 1)>>>>

\* every cell of the block x holds the value c
ConstantBlock(x, c) ==
  \A t \in 1..Len(x) : \A p \in 1..Len(x[t]) : x[t][p] = c

\* C15 as stated: for every window w >= 1, every row count T >= 1 and a
\* block holding the same value c in every cell, the result holds c^2 at every
\* row and column.
C15_ConstantInput ==
  \A c \in EnergyValues :
    (EnergyCalled /\ tfIn.win >= 1 /\ Len(tfIn.x) >= 1 /\ ConstantBlock(tfIn.x, c)) =>
       \A t \in 1..Len(tfIn.x) : \A p \in 1..Len(tfIn.x[t]) :
         tfOut.value[t][p] = FMul(c, c)

----------------------------------------------------------------------------
(* _post_to_gray on scaled grids *)

GrayDen == 4
MaxCols == 2

\* the scaled values k / GrayDen of [0, 1] and the one-row grids of them
UnitValues == {Fin(k, GrayDen) : k \in 0..GrayDen}
UnitGrids == UNION {[1..1 -> [1..P -> UnitValues]] : P \in 1..MaxCols}

\* the gamma values drawn: the default, one that is applied, one that is not
Gammas == {Fin(1, 1), Fin(2, 1), Fin(0, 1)}

InitPost ==
  /\ InitWorker /\ InitWindow /\ InitRenderer /\ InitStopper /\ InitTick /\ InitRefs /\ InitSide
  /\ tfCfg \in {[TransformDefaults EXCEPT !.gamma = g, !.invert = i] :
                  g \in Gammas, i \in BOOLEAN}
  /\ tfIn \in {PostArgs(y) : y \in UnitGrids}
  /\ tfOut = Pending
  /\ connected = FALSE
  /\ budget = 0
  /\ wfH = WfHeight

NextPost == PostToGrayCall

SpecPost == InitPost /\ [][NextPost]_vars

\* _post_to_gray has returned
PostCalled == tfIn.method = "_post_to_gray" /\ tfOut.returned

\* the whole number b is nearest to the value v
NearestTo(b, v) == 2 * AbsInt(b * v.d - v.n) <= v.d

----------------------------------------------------------------------------
(* Percentile scaling and apply on float32 blocks *)

\* the samples drawn: two finite values, +inf and NaN; the one-row blocks
GrayValues == {Fin(0, 1), Fin(2, 1), Inf(1), NaN}
GrayBlocks == UNION {[1..1 -> [1..P -> GrayValues]] : P \in 1..MaxCols}

\* the modes drawn, each of which scales by percentiles
Modes == {"Linear", "Abs", "HP(MeanRemove)"}

InitGray ==
  /\ InitWorker /\ InitWindow /\ InitRenderer /\ InitStopper /\ InitTick /\ InitRefs /\ InitSide
  /\ \/ /\ tfIn \in {PercentileArgs(x) : x \in GrayBlocks}
        /\ tfCfg \in {[TransformDefaults EXCEPT !.invert = i] : i \in BOOLEAN}
     \/ /\ tfIn \in {ApplyArgs(x) : x \in GrayBlocks}
        /\ tfCfg \in {[TransformDefaults EXCEPT !.mode = m] : m \in Modes}
  /\ tfOut = Pending
  /\ connected = FALSE
  /\ budget = 0
  /\ wfH = WfHeight

NextGray == PercentileToGrayCall \/ ApplyCall

SpecGray == InitGray /\ [][NextGray]_vars

\* _percentile_to_gray has returned; apply has returned
PercentileCalled == tfIn.method = "_percentile_to_gray" /\ tfOut.returned
ApplyCalled == tfIn.method = "apply" /\ tfOut.returned

\* every cell of the grid x holds the same number
AllEqual(x) == \E c \in GrayValues : c.t # "nan" /\ ConstantBlock(x, c)

\* C17: percentile scaling of a grid whose values are all equal takes the
\* fallback branch and gives one gray level in every cell, 0 when invert is
\* false and 255 when it is true, and no cell is left to an undefined
\* conversion
C17_AllEqualOneLevel ==
  (PercentileCalled /\ AllEqual(tfIn.feat)) =>
    /\ UsesFallback(tfIn.feat, tfCfg)
    /\ \A c \in 1..Len(tfIn.feat[1]) :
         /\ tfOut.value[1][c] = IF tfCfg.invert THEN 255 ELSE 0
         /\ CastUint8(PercentileValues(tfIn.feat, tfCfg)[1][c]) = {tfOut.value[1][c]}

\* C18: whatever the block (non-finite samples included) and the
\* configuration, apply returns a grid of the shape of the block in which
\* every cell is a defined value of 0..255
C18_ApplyAlwaysDefined ==
  ApplyCalled =>
    /\ Len(tfOut.value) = Len(tfIn.block)
    /\ \A r \in 1..Len(tfIn.block) :
         /\ Len(tfOut.value[r]) = Len(tfIn.block[r])
         /\ \A c \in 1..Len(tfIn.block[r]) :
              /\ tfOut.value[r][c] \in 0..255
              /\ CastUint8(ApplyValues(tfIn.block, tfCfg)[r][c]) = {tfOut.value[r][c]}

----------------------------------------------------------------------------
(* A worker that is started once and stopped *)

MaxStopRegistered == 1

\* the callbacks that the driver accepts before a stop
StopRegSets == {r \in SUBSET Producers : Cardinality(r) <= MaxStopRegistered}

\* start() is called until the worker has run once and never after a stop
StartOnce(regs, ok) == cons = "none" /\ stopPc = "idle" /\ Start(regs, ok)

NextStop ==
  \/ \E regs \in StopRegSets, ok \in BOOLEAN : StartOnce(regs, ok)
  \/ \E p \in Producers : DriverCallback(p)
  \/ \E p \in Producers : CbStep(p)
  \/ Consumer
  \/ Stop

\* the consumer thread is scheduled as long as it has a step to take: its
\* get(timeout=1) returns with an item or with queue.Empty
SpecStop == Init /\ [][NextStop]_vars /\ WF_vars(Consumer)

\* stop() was called on the running worker and has returned
Stopped == stopPc = "idle" /\ ~running /\ cons # "none"

\* the values of the start controls that the operator can have set
StartConfigs == {UiConfig, [UiConfig EXCEPT !.scan_rate = "10k", !.pulse_width = 200]}

\* the state of the worker: its fields, its queue, its threads, the driver
WorkerState ==
  <<running, drvOn, registered, queue, cons, consItem, cons2, cons2Item, cbRefs, wcfg,
    pc, loc, stopPc>>

\* C39: a start of a worker that runs and a stop of a worker that does not
\* run return at once: the driver, the threads, the queue, the cfg_* fields
\* and _cb_refs stay as they are
C39_NoOpCalls ==
  /\ (running /\ stopPc = "idle") =>
       \A regs \in StopRegSets, ok \in BOOLEAN, c \in StartConfigs :
         /\ ENABLED StartWith(regs, ok, c)
         /\ ~ENABLED (StartWith(regs, ok, c) /\ ~UNCHANGED WorkerState)
  /\ (~running /\ stopPc = "idle") =>
       /\ ENABLED StopBegin
       /\ ~ENABLED (StopBegin /\ ~UNCHANGED WorkerState)

\* the worker runs, its consumer waits in get() and a payload is queued
C39_Witness ==
  /\ running
  /\ stopPc = "idle"
  /\ cons = "get"
  /\ queue # <<>>
  /\ wcfg = UiConfig

\* C19: once stop() has cleared self.running and no start() follows, the
\* consumer thread eventually leaves _process_loop, whether or not a
\* producer enqueues again
C19_ConsumerLeavesLoop == (~running /\ cons \notin {"none", "done"}) ~> (cons = "done")

\* stop() has returned, the consumer has left its loop and no callback is
\* in flight
C19_Witness ==
  /\ Stopped /\ cons = "done"
  /\ \A p \in Producers : pc[p] = "idle"

\* C20: once stop() has returned, the ingestion queue is empty, also with
\* callbacks that were in flight when stop() was called
C20_EmptyAfterStop == Stopped => queue = <<>>

----------------------------------------------------------------------------
(* SpecTick: the window of a running acquisition under data_ready signals,  *)
(* the timer and the operator                                               *)

MaxFrames == 2
MaxTime == 100

\* time.time() when the model starts: any time later than 1/30 s
Epoch == 10 * MinUiInterval

\* the payload of stream key k emitted at time t: n lines of w samples, the
\* sample of column c being the number c
TickFrame(k, n, w, t) ==
  [channel |-> k[1], kind |-> k[2], cb_lines |-> n, point_count |-> w,
   block |-> [r \in 1..n |-> [c \in 1..w |-> Fin(c - 1, 1)]], ts |-> t,
   cfg_scan_rate |-> "10k"]
FrameKeys == {<<1, "phase">>, <<2, "phase">>}
FrameWidths == {1, 2}

\* a data_ready signal is delivered to on_data_ready
DeliverFrame(k, w) ==
  /\ stopPc = "idle"
  /\ budget > 0
  /\ budget' = budget - 1
  /\ OnDataReady(TickFrame(k, 1, w, clock))
  /\ UNCHANGED <<running, drvOn, registered, connected, queue, cons, consItem, sigq,
                 pc, loc, clock, wfVars, stopVars, tfVars, tickVars, refVars, sideVars>>

\* time passes: one timer period, or 1/30 s
Delays == {TimerPeriod, MinUiInterval}
TimePasses(d) ==
  /\ clock + d <= Epoch + MaxTime
  /\ clock' = clock + d
  /\ UNCHANGED <<running, drvOn, registered, connected, queue, cons, consItem, sigq,
                 pc, loc, budget, uiVars, wfVars, stopVars, tfVars, tickVars, refVars, sideVars>>

\* the values of the transform controls that the operator sets
Controls == {[ControlDefaults EXCEPT !.invert = i] : i \in BOOLEAN}

\* widths of the display and pixels of a click
DisplayWidth == 4

\* a worker that runs, and the window as constructed (its transform has the
\* mode of line 27)
InitTicking ==
  /\ running = TRUE
  /\ drvOn = TRUE
  /\ registered = Producers
  /\ cbRefs = Producers
  /\ cons2 = "none"
  /\ cons2Item = None
  /\ status = StatusRunning
  /\ wcfg = UiConfig
  /\ queue = <<>>
  /\ cons = "get"
  /\ consItem = None
  /\ sigq = <<>>
  /\ pc = [p \in Producers |-> "idle"]
  /\ loc = [p \in Producers |-> NoLocals]
  /\ clock = Epoch
  /\ connected = TRUE
  /\ budget = MaxFrames
  /\ InitWindow /\ InitRenderer /\ InitStopper /\ InitTick
  /\ tfCfg = [TransformDefaults EXCEPT !.mode = "Energy (MSE dB)"]
  /\ tfIn = NoCall
  /\ tfOut = Pending
  /\ wfH = MaxHeight

NextTick ==
  \/ \E k \in FrameKeys, w \in FrameWidths : DeliverFrame(k, w)
  \/ \E d \in Delays : TimePasses(d)
  \/ Tick
  \/ \E ch \in ChannelItems, kind \in KindItems : SelectStream(ch, kind)
  \/ \E c \in Controls : SetControls(c)
  \/ \E v \in 0..(MaxDim - 1) : EditTsCol(v)
  \/ \E x \in 0..(DisplayWidth - 1) : Click(x, DisplayWidth)

SpecTick == InitTicking /\ [][NextTick]_vars

C24_HistoryOneColumn ==
  \A i, j \in 1..Len(tsY) : tsY[i] = tsY[j]

\* a step of the window that takes the frame of the selected key out of the
\* cache: in SpecTick only the tick removes a cache entry
Takes == latest[SelectedKey(sel)] # None /\ latest'[SelectedKey(sel)] = None

\* the step shows the frame pl: it stamps the throttle time and the newest
\* rows of the waterfall buffer are the gray rows of the block of pl
Rendered(pl) ==
  /\ lastUpdate' = clock
  /\ wfW' = pl.point_count
  /\ \E g \in CastGrids(ApplyValues(pl.block, SyncTransformParams(tfCfg, ctl))) :
       \A i \in 1..Len(g) : wf'[wfH - Len(g) + i] = g[i]

\* the step shows nothing: buffer, history and throttle time stay
NotRendered == UNCHANGED <<wfVars, tsT, tsY, tsLastT, lastUpdate>>

\* C26: the mode that the tick installs in the transform before apply
\* selects the rolling energy branch of apply
C26_TickSelectsEnergy ==
  [][(Takes /\ ~Throttled(clock, lastUpdate)) =>
       ApplyBranch(tfCfg') = "EnergyLog(MSE)"]_vars

\* C27: a tick that takes a frame from the cache pushes it onto the
\* waterfall buffer
C27_TakenFrameRendered ==
  [][Takes => Rendered(latest[SelectedKey(sel)])]_vars

\* C28: with a fresh frame in the cache, a tick that fires one timer period
\* after the previous render renders
C28_PeriodicTickRenders ==
  [][(Takes /\ lastUpdate # 0 /\ clock - lastUpdate = TimerPeriod) =>
       Rendered(latest[SelectedKey(sel)])]_vars

\* a step in which the operator changes the selection, a control or the
\* time-series column (the tick clamps the column only while it takes a frame)
Pokes == sel' # sel \/ ctl' # ctl \/ (tsCol' # tsCol /\ latest' = latest)

\* C29: a change of the selection or of a control resets the throttle; the
\* next tick with a fresh frame renders whatever the time since the previous
\* render, and that render spends the bypass: a tick less than 1/30 s after
\* it is rejected
C29_PokeBypassesOnce ==
  [][/\ Pokes => lastUpdate' = 0
     /\ (Takes /\ lastUpdate = 0) =>
          Rendered(latest[SelectedKey(sel)]) /\ lastUpdate' # 0
     /\ (Takes /\ lastUpdate # 0 /\ clock - lastUpdate < MinUiInterval) =>
          NotRendered]_vars

\* two frames were rendered less than 1/30 s apart
C29_Witness ==
  /\ lastUpdate = Epoch + TimerPeriod
  /\ Len(tsT) = 2
  /\ budget = 0

\* C35: a change of the controls of the transform leaves the waterfall
\* buffer and the configuration of the transform as they are; the tick that
\* renders next installs the values of the controls, transforms its block
\* with them, and keeps the rows that it does not scroll out
C35_ConfigNotRetroactive ==
  [][/\ ctl' # ctl => UNCHANGED <<wfVars, tfCfg>>
     /\ (Takes /\ ~Throttled(clock, lastUpdate)) =>
          LET pl == latest[SelectedKey(sel)] IN
          /\ \A f \in {"energy_win", "vmin", "vmax", "gamma", "eps", "invert"} :
               tfCfg'[f] = ctl[f]
          /\ \E g \in CastGrids(ApplyValues(pl.block, tfCfg')) :
               /\ \A i \in 1..Len(g) : wf'[wfH - Len(g) + i] = g[i]
               /\ wfW = pl.point_count =>
                    \A i \in 1..(wfH - Len(g)) : wf'[i] = wf[i + Len(g)]]_vars

\* a row transformed with invert set lies in the buffer under a row
\* transformed after invert was cleared
C35_Witness ==
  /\ ~ctl.invert
  /\ ~tfCfg.invert
  /\ wfW = 2
  /\ wf[wfH] = <<0, 255>>
  /\ wf[wfH - 1] = <<255, 0>>

\* C30: a tick that finds no frame for the selected key changes neither the
\* waterfall buffer, the history, the transform configuration and the
\* throttle time nor any cache entry
C30_EmptyTickNoOp ==
  (stopPc = "idle" /\ latest[SelectedKey(sel)] = None) =>
    /\ ENABLED Tick
    /\ ~ENABLED (Tick /\ ~UNCHANGED <<wfVars, tickVars, tfVars, latest>>)

\* nothing waits for the selected key while a frame of the other stream is
\* cached and a frame has been rendered
C30_Witness ==
  /\ stopPc = "idle"
  /\ latest[SelectedKey(sel)] = None
  /\ \E k \in Keys : latest[k] # None
  /\ Len(tsT) = 1

\* ---------------------------------------------------------------------------
\* The history of the time series when it is nearly full
\* ---------------------------------------------------------------------------

\* the frame that the window has rendered n times: one line, one column
SeenFrame == TickFrame(<<1, "phase">>, 1, 1, 0)

\* the window after it rendered n frames SeenFrame (n at least the height of
\* the buffer), the last of them 1/30 s before the model starts
InitSeen(n) ==
  /\ running = TRUE
  /\ drvOn = TRUE
  /\ registered = Producers
  /\ cbRefs = Producers
  /\ cons2 = "none"
  /\ cons2Item = None
  /\ status = StatusShow
  /\ wcfg = UiConfig
  /\ queue = <<>>
  /\ cons = "get"
  /\ consItem = None
  /\ sigq = <<>>
  /\ pc = [p \in Producers |-> "idle"]
  /\ loc = [p \in Producers |-> NoLocals]
  /\ clock = Epoch
  /\ connected = TRUE
  /\ budget = MaxFrames
  /\ InitWindow /\ InitStopper
  /\ tfCfg = SyncTransformParams(TransformDefaults, ControlDefaults)
  /\ tfIn = NoCall
  /\ tfOut = Pending
  /\ wfH = MaxHeight
  /\ wfW = 1
  /\ \E g \in CastGrids(ApplyValues(SeenFrame.block, tfCfg)) :
       wf = [r \in 1..wfH |-> g[1]]
  /\ lastUpdate = Epoch - MinUiInterval
  /\ tsT = [i \in 1..n |-> TsDt(SeenFrame.cfg_scan_rate) * i]
  /\ tsY = [i \in 1..n |-> SeenFrame.block[1][1]]
  /\ tsLastT = TsDt(SeenFrame.cfg_scan_rate) * n
  /\ tsCol = 0
  /\ tsColMax = 0
  /\ tsLastPc = 1
  /\ ctl = ControlDefaults
  /\ wfSrcW = 1

InitTs == InitTicking \/ \E n \in {HistoryMax - 1, HistoryMax} : InitSeen(n)

NextTs ==
  \/ \E k \in FrameKeys, w \in FrameWidths : DeliverFrame(k, w)
  \/ \E d \in Delays : TimePasses(d)
  \/ Tick
  \/ \E x \in 0..(DisplayWidth - 1) : Click(x, DisplayWidth)

SpecTs == InitTs /\ [][NextTs]_vars

DeliverRunning(k, w) ==
  /\ running
  /\ DeliverFrame(k, w)

\* the signals of the worker reach the window while it runs; the operator
\* stops it; the timer goes on
NextUiStop ==
  \/ \E k \in FrameKeys, w \in FrameWidths : DeliverRunning(k, w)
  \/ \E d \in Delays : TimePasses(d)
  \/ Tick
  \/ Stop

SpecUiStop == InitTicking /\ [][NextUiStop]_vars

\* C21: once a stop of a running worker has returned, the stream cache of
\* the window holds no frame
C21_CacheEmptyAfterStop ==
  Stopped => \A k \in Keys : latest[k] = None

\* ---------------------------------------------------------------------------
\* The column of a click
\* ---------------------------------------------------------------------------

\* largest source width of a click
MaxSrcW == 4

\* clicks at whole and half pixels, left of the widget, on it and right of it
ClickXs == (-3..(2 * DisplayWidth + 3)) \X {1, 2}
ClickWidths == 0..DisplayWidth

InitClick ==
  /\ InitWorker /\ InitWindow /\ InitRenderer /\ InitStopper /\ InitRefs /\ InitSide
  /\ InitTransform
  /\ lastUpdate = 0
  /\ tsT = <<>>
  /\ tsY = <<>>
  /\ tsLastT = 0
  /\ tsCol = 0
  /\ wfSrcW \in 0..MaxSrcW
  /\ tsColMax = Max2(0, wfSrcW - 1)
  /\ tsLastPc = IF wfSrcW = 0 THEN -1 ELSE wfSrcW
  /\ ctl = ControlDefaults
  /\ connected = FALSE
  /\ budget = 0
  /\ wfH = WfHeight

ClickArgs == {XToColArgs(x[1], x[2], w) : x \in ClickXs, w \in ClickWidths}

\* the window is asked for the column of one click
AskColumn(a) ==
  /\ tfIn = NoCall
  /\ tfIn' = a
  /\ tfOut' = Pending
  /\ UNCHANGED <<tfCfg, acqVars, uiVars, wfVars, stopVars, tickVars, refVars, sideVars>>

NextClick ==
  \/ \E a \in ClickArgs : AskColumn(a)
  \/ XToColCall

SpecClick == InitClick /\ [][NextClick]_vars

\* _x_to_col_exact has returned
XToColCalled == tfIn.method = "_x_to_col_exact" /\ tfOut.returned

\* floor((x + 0.5) * src_w / dst_w) for x = xn / xd
PixelCentre(xn, xd, src_w, dst_w) == ((2 * xn + xd) * src_w) \div (2 * xd * dst_w)

\* C37: the column returned for a click lies in [0, max(0, src_w - 1)]; for
\* widths above 1 and 0 <= x <= dst_w - 1 it is floor((x + 0.5) * src_w /
\* dst_w); and a click further right never gives a column further left
C37_ClickColumn ==
  XToColCalled =>
    /\ tfOut.value \in 0..Max2(0, wfSrcW - 1)
    /\ (wfSrcW > 1 /\ tfIn.dst_w > 1 /\ 0 <= tfIn.xn
          /\ tfIn.xn <= (tfIn.dst_w - 1) * tfIn.xd) =>
         tfOut.value = PixelCentre(tfIn.xn, tfIn.xd, wfSrcW, tfIn.dst_w)
    /\ \A x \in ClickXs :
         (tfIn.xn * x[2] <= x[1] * tfIn.xd) =>
           tfOut.value <= XToColExactQ(x[1], x[2], wfSrcW, tfIn.dst_w)

\* a click at x = 1.5 on a widget 4 wide over 3 source columns gave column 1
C37_Witness ==
  /\ XToColCalled
  /\ tfIn.xn = 3 /\ tfIn.xd = 2 /\ tfIn.dst_w = 4
  /\ wfSrcW = 3
  /\ tfOut.value = 1

\* ---------------------------------------------------------------------------
\* The points of the chart
\* ---------------------------------------------------------------------------

\* the window after it rendered n frames SeenFrame, the chart being drawn
InitChart ==
  \E n \in 2..HistoryMax :
    /\ InitWorker /\ InitWindow /\ InitRenderer /\ InitStopper /\ InitRefs /\ InitSide
    /\ tfCfg = SyncTransformParams(TransformDefaults, ControlDefaults)
    /\ tfIn = ChartArgs
    /\ tfOut = Pending
    /\ lastUpdate = 0
    /\ tsT = [i \in 1..n |-> TsDt(SeenFrame.cfg_scan_rate) * i]
    /\ tsY = [i \in 1..n |-> SeenFrame.block[1][1]]
    /\ tsLastT = TsDt(SeenFrame.cfg_scan_rate) * n
    /\ tsCol = 0
    /\ tsColMax = 0
    /\ tsLastPc = 1
    /\ ctl = ControlDefaults
    /\ wfSrcW = 1
    /\ connected = FALSE
    /\ budget = 0
    /\ wfH = WfHeight

NextChart == ChartCall

SpecChart == InitChart /\ [][NextChart]_vars

\* C38: the chart gets at most 800 points, and a history longer than 800 is
\* read with a stride above 1
C38_ChartWithinBudget ==
  (tfIn = ChartArgs /\ tfOut.returned) =>
    /\ Len(tfOut.value) <= ChartTarget
    /\ (Len(tsY) > ChartTarget => ChartStep(Len(tsY)) > 1)

\* ---------------------------------------------------------------------------
\* The percentiles that the operator sets
\* ---------------------------------------------------------------------------

\* values of the spin boxes tf_p_lo and tf_p_hi (range 0..100, one decimal)
PctValues == {Fin(0, 1), Fin(5, 1), Fin(501, 10), Fin(95, 1), Fin(100, 1)}
PctBlocks == {<<<<Fin(0, 1), Fin(1, 1)>>>>, <<<<Fin(1, 1), Fin(1, 1)>>>>,
              <<<<Fin(2, 1), Fin(0, 1)>>>>}

InitPct ==
  /\ InitWorker /\ InitWindow /\ InitRenderer /\ InitStopper /\ InitTick /\ InitRefs /\ InitSide
  /\ tfCfg \in {[TransformDefaults EXCEPT !.p_lo = a, !.p_hi = b] :
                  a \in PctValues, b \in PctValues}
  /\ tfIn \in {PercentileArgs(x) : x \in PctBlocks}
  /\ tfOut = Pending
  /\ connected = FALSE
  /\ budget = 0
  /\ wfH = WfHeight

NextPct == PercentileToGrayCall

SpecPct == InitPct /\ [][NextPct]_vars

\* C36: the percentiles handed to np.percentile lie in [0, 100] and the low
\* one is below the high one
C36_PercentilePairValid ==
  tfIn.method = "_percentile_to_gray" =>
    /\ PercentileInRange(PercentileLo(tfCfg))
    /\ PercentileInRange(PercentileHi(tfCfg))
    /\ FLess(PercentileLo(tfCfg), PercentileHi(tfCfg))

\* ---------------------------------------------------------------------------
\* From the driver's callback to the display
\* ---------------------------------------------------------------------------

\* the producer of stream key k
ProducerOf(k) == CHOOSE p \in Producers : ChannelOf(p) = k[1] /\ KindOf(p) = k[2]

\* _on_block with a well-formed buffer of one line of w samples, from its
\* entry to put_nowait (lines 176-241), at time.time() = clock
EnqueueFrame(k, w) ==
  /\ drvOn
  /\ ProducerOf(k) \in registered
  /\ budget > 0
  /\ budget' = budget - 1
  /\ queue' = QPutNowait(IF QFull(queue) THEN QGetNowait(queue).q ELSE queue,
                         TickFrame(k, 1, w, clock)).q
  /\ UNCHANGED <<running, drvOn, registered, connected, cons, consItem, sigq, pc, loc, clock,
                 uiVars, wfVars, stopVars, tfVars, tickVars, refVars, sideVars>>

\* the event loop of the window's thread delivers the oldest data_ready
\* emission to on_data_ready (main_window.py, lines 269-275)
Dispatch ==
  /\ stopPc = "idle"
  /\ sigq # <<>>
  /\ sigq' = Tail(sigq)
  /\ OnDataReady(Head(sigq))
  /\ UNCHANGED <<running, drvOn, registered, connected, queue, cons, consItem, pc, loc, clock,
                 budget, wfVars, stopVars, tfVars, tickVars, refVars, sideVars>>

\* the statement of the try block of _tick at which an exception is raised:
\* before the history is touched (lines 434-452), in transform.apply (line
\* 465) or in render_to_label (line 467)
Stages == {"asarray", "apply", "render"}

\* _tick takes a frame and its try block raises at stage st; the handler of
\* lines 477-478 sets the status line and _tick returns
TickRaises(st) ==
  /\ stopPc = "idle"
  /\ LET r == CacheTake(latest, SelectedKey(sel))
         sh == TickBlock(r.payload)
         pcount == r.payload.point_count
     IN /\ r.payload # None
        /\ ~Throttled(clock, lastUpdate)
        /\ sh.ok
        /\ ret' = r.payload
        /\ latest' = r.cache
        /\ lastUpdate' = clock
        /\ status' = StatusRenderError
        /\ IF st = "asarray"
           THEN UNCHANGED <<wfVars, tfCfg, tsT, tsY, tsLastT, tsCol, tsColMax, tsLastPc, wfSrcW>>
           ELSE LET h == UpdateTimeseries(sh.block,
                           PayloadGet(r.payload, "cfg_scan_rate", ""), pcount)
                    cfg == SyncTransformParams(tfCfg, ctl)
                    buf == IF wfW # 0 /\ wfW = pcount THEN wf ELSE Zeros(wfH, pcount)
                IN /\ tsT' = h.t
                   /\ tsY' = h.y
                   /\ tsLastT' = h.last
                   /\ tsColMax' = TsRangeMax(pcount)
                   /\ tsCol' = Min2(tsCol, TsRangeMax(pcount))
                   /\ tsLastPc' = pcount
                   /\ tfCfg' = cfg
                   /\ wfW' = pcount
                   /\ wfSrcW' = pcount
                   /\ IF st = "apply"
                      THEN wf' = buf
                      ELSE \E g \in CastGrids(ApplyValues(sh.block, cfg)) :
                             wf' = Scroll(buf, wfH, g)
                   /\ UNCHANGED wfH
  /\ UNCHANGED <<sel, ctl, acqVars, stopVars, tfIn, tfOut, refVars, cons2, cons2Item, wcfg>>

\* the driver calls back, the consumer emits (an emission may raise), the
\* window caches and shows (a tick may raise), the operator stops the worker
NextPipe ==
  \/ \E k \in FrameKeys, w \in FrameWidths : EnqueueFrame(k, w)
  \/ Consumer
  \/ ConsEmitRaises
  \/ Dispatch
  \/ Tick
  \/ \E st \in Stages : TickRaises(st)
  \/ \E d \in Delays : TimePasses(d)
  \/ Stop

SpecPipe == InitTicking /\ [][NextPipe]_vars

\* C33: the consumer thread leaves _process_loop only when running is false,
\* whatever was raised while dequeuing or emitting; and a tick that takes a
\* frame outside the throttle interval either raises, which the status line
\* reports, or shows the frame, whatever earlier ticks raised
C33_OnlyStopEnds ==
  [][/\ (Alive(cons) /\ cons' = "done") => ~running
     /\ (Takes /\ ~Throttled(clock, lastUpdate))
          => (status' = StatusRenderError \/ (Rendered(ret') /\ status' = StatusShow))]_vars

\* the worker runs with its consumer in the loop; a tick raised in apply (the
\* history has the sample of its frame, the buffer was made and nothing was
\* pushed) and a later frame is cached for a tick outside the throttle
\* interval
C33_Witness ==
  /\ running
  /\ Alive(cons)
  /\ status = StatusRenderError
  /\ Len(tsT) = 1
  /\ wfW = 2
  /\ wf = Zeros(wfH, 2)
  /\ latest[SelectedKey(sel)] # None
  /\ latest[SelectedKey(sel)].ts > ret.ts
  /\ ~Throttled(clock, lastUpdate)

\* ---------------------------------------------------------------------------
\* Stop and start again
\* ---------------------------------------------------------------------------

\* the operator presses Start when the worker does not run: all four
\* callbacks register and the driver opens or fails
Restart(ok) == StartIdle(Producers, ok)

\* the operator stops the running worker and starts it again, while the
\* driver calls back, the threads of _process_loop run and the window caches
\* and shows
NextRestart ==
  \/ \E k \in FrameKeys, w \in FrameWidths : EnqueueFrame(k, w)
  \/ Consumer
  \/ Consumer2
  \/ Dispatch
  \/ Tick
  \/ \E d \in Delays : TimePasses(d)
  \/ Stop
  \/ \E ok \in BOOLEAN : Restart(ok)

SpecRestart == InitTicking /\ [][NextRestart]_vars

\* C31: at no time are two threads executing _process_loop
C31_OneConsumer == ~(Alive(cons) /\ Alive(cons2))

\* the emissions not yet delivered are, for each stream key, in the order of
\* their time stamps
EmittedInOrder(q) ==
  \A i \in 1..Len(q) : \A j \in (i + 1)..Len(q) :
    KeyOfPayload(q[i]) = KeyOfPayload(q[j]) => q[i].ts <= q[j].ts

\* C32: the emissions of a stream key wait for on_data_ready in the order in
\* which their blocks were enqueued, and the cache entry of a key is never
\* replaced by a block that was enqueued before the one it holds
C32_CacheInEnqueueOrder ==
  [][/\ EmittedInOrder(sigq')
     /\ \A k \in Keys :
          (latest[k] # None /\ latest'[k] # None) => latest'[k].ts >= latest[k].ts]_vars

\* C34: the first frame that is shown after the operator has started the
\* worker is pushed onto a buffer of zeros: only its own lines are not zero
C34_RestartResetsBuffer ==
  [][(running /\ status = StatusRunning /\ Takes /\ status' = StatusShow)
       => \A i \in 1..(wfH - Len(ret'.block)) : wf'[i] = [c \in 1..wfW' |-> 0]]_vars

====
